---- MODULE Spec2Model ----
(***************************************************************************)
(* Forward model of BirefringentRaytraceLFM (GeoBirT): the ray-voxel       *)
(* accumulator, the microlens geometry replicator, the radiometry/lenslet  *)
(* filter and the image assembler.                                         *)
(*                                                                         *)
(* Conventions of the model                                                *)
(*  - indices are 0-based as in the Python source; sequences are 1-based,  *)
(*    so element k of a Python list is element k+1 of the sequence;        *)
(*  - a complex number is a pair <<re, im>> of integers, a Jones matrix    *)
(*    [[a, b], [c, d]] is the 4-tuple <<a, b, c, d>>;                      *)
(*  - angles are counted in units of pi/4 (azimuth) and pi (retardance),   *)
(*    which keeps every sine and cosine in {-1, 0, 1} and the matrix       *)
(*    products exact;                                                      *)
(*  - the per-ray scalar written to an image (retardance, azimuth) is a    *)
(*    function of the ray's Jones matrix, so an image pixel holds the      *)
(*    matrix it was computed from, or Dark (the zero of torch.zeros).      *)
(***************************************************************************)
EXTENDS Integers, Sequences, FiniteSets, TLC

(***************************************************************************)
(* Bounds of the model.                                                    *)
(***************************************************************************)
MaxLen == 2
NumRays == 2
MaxN == 3
MaxV == 2
SmallExtent == 2
LargeExtent == 8
MaxSpan == 1
MaxDeltaN == 1
MaxAngle == 7

(***************************************************************************)
(* Program constants.                                                      *)
(***************************************************************************)
PixelsPerMl == 2
VolZ == 1
Pad == -1

(***************************************************************************)
(* Small helpers.                                                          *)
(***************************************************************************)
Abs(x) == IF x < 0 THEN -x ELSE x

FloorDiv2(x) == x \div 2

RECURSIVE SeqMax(_)
SeqMax(s) ==
  IF s = <<>> THEN 0
  ELSE LET t == SeqMax(Tail(s)) IN IF Head(s) > t THEN Head(s) ELSE t

RECURSIVE Flatten(_)
Flatten(ss) == IF ss = <<>> THEN <<>> ELSE Head(ss) \o Flatten(Tail(ss))

RECURSIVE SelectByMask(_, _)
SelectByMask(s, mask) ==
  IF s = <<>> \/ mask = <<>> THEN <<>>
  ELSE IF Head(mask) THEN <<Head(s)>> \o SelectByMask(Tail(s), Tail(mask))
       ELSE SelectByMask(Tail(s), Tail(mask))

RECURSIVE Repeat(_, _)
Repeat(s, k) == IF k <= 0 THEN <<>> ELSE s \o Repeat(s, k - 1)

CountTrue(mask) == Cardinality({k \in DOMAIN mask : mask[k]})

(* position among the selected entries of the k-th entry of a mask *)
RankIn(mask, k) == Cardinality({q \in 1..k : mask[q]})

(***************************************************************************)
(* Jones algebra.                                                          *)
(***************************************************************************)
CAdd(x, y) == <<x[1] + y[1], x[2] + y[2]>>
CMul(x, y) == <<x[1] * y[1] - x[2] * y[2], x[1] * y[2] + x[2] * y[1]>>
Conj(x) == <<x[1], -x[2]>>

Identity2 == << <<1, 0>>, <<0, 0>>, <<0, 0>>, <<1, 0>> >>

(* the @ of numpy and torch: rows of A against the columns of B *)
MatMul(A, B) ==
  << CAdd(CMul(A[1], B[1]), CMul(A[2], B[3])),
     CAdd(CMul(A[1], B[2]), CMul(A[2], B[4])),
     CAdd(CMul(A[3], B[1]), CMul(A[4], B[3])),
     CAdd(CMul(A[3], B[2]), CMul(A[4], B[4])) >>

(* cos and sin of k * pi/2 *)
CosQ(k) == CASE k % 4 = 0 -> 1 [] k % 4 = 2 -> -1 [] OTHER -> 0
SinQ(k) == CASE k % 4 = 1 -> 1 [] k % 4 = 3 -> -1 [] OTHER -> 0

(* voxRayJM: the Jones matrix of one ray segment through one voxel.        *)
(* opticAxis is the direction of the axis in the plane transverse to the   *)
(* ray in units of pi/4, rayDir the rotation of the ray's basis in the     *)
(* same units, ell the path length; one unit of |Delta_n| * ell is a       *)
(* retardance of pi.                                                       *)
voxRayJM(Delta_n_vox, opticAxis, rayDir, ell) ==
  LET atan2q == opticAxis + rayDir
      azim == IF Delta_n_vox = 0 THEN 0
              ELSE IF Delta_n_vox < 0 THEN atan2q + 2
              ELSE atan2q
      ret == Abs(Delta_n_vox) * ell
      offdiag == <<0, SinQ(azim) * SinQ(ret)>>
      diag1 == <<CosQ(ret), CosQ(azim) * SinQ(ret)>>
      diag2 == Conj(diag1)
  IN << diag1, offdiag, offdiag, diag2 >>

(* rayJM_numpy: the product of a list of Jones matrices, in list order *)
RECURSIVE rayJM_numpy_from(_, _)
rayJM_numpy_from(product, JMlist) ==
  IF JMlist = <<>> THEN product
  ELSE rayJM_numpy_from(MatMul(product, Head(JMlist)), Tail(JMlist))

rayJM_numpy(JMlist) == rayJM_numpy_from(Identity2, JMlist)

(***************************************************************************)
(* Index arithmetic of the geometry replicator.                            *)
(***************************************************************************)
(* RayTraceLFM.ravel_index: row-major flat index of the triple x in a      *)
(* volume of shape dims; no bounds check                                   *)
ravel_index(x, dims) == x[1] * dims[2] * dims[3] + x[2] * dims[3] + x[3]

(* offset of the lenslet at (row_index, col_index), both counted from the  *)
(* middle of the array                                                     *)
calculate_current_offset(row_index, col_index, num_voxels_per_ml, num_microlenses, ctr) ==
  LET scaled_indices == <<num_voxels_per_ml * row_index, num_voxels_per_ml * col_index>>
      central_offset == <<ctr[2], ctr[3]>>
      half_voxel_span == FloorDiv2(num_voxels_per_ml * num_microlenses)
  IN <<scaled_indices[1] + central_offset[1] - half_voxel_span,
       scaled_indices[2] + central_offset[2] - half_voxel_span>>

(* the offset the revision without voxel supersampling adds in             *)
(* ret_and_azim_images_torch to the loop's [v * ml_ii, v * ml_jj]          *)
legacy_micro_lens_offset(ml_ii, ml_jj, n_voxels_per_ml, n_micro_lenses, ctr) ==
  LET current_offset == <<n_voxels_per_ml * ml_ii, n_voxels_per_ml * ml_jj>>
      n_ml_half == FloorDiv2(n_micro_lenses)
  IN <<current_offset[1] + ctr[2] - n_ml_half,
       current_offset[2] + ctr[3] - n_ml_half>>

(* the base collision lists shifted by microlens_offset and flattened *)
gather_voxels_of_rays_pytorch(microlens_offset, collision_indices, vol_shape) ==
  [r \in 1..Len(collision_indices) |->
     [ix \in 1..Len(collision_indices[r]) |->
        ravel_index(<<collision_indices[r][ix][1],
                      collision_indices[r][ix][2] + microlens_offset[1],
                      collision_indices[r][ix][3] + microlens_offset[2]>>,
                    vol_shape)]]

(* lists padded with -1 to the length of the longest *)
PadTo(inner_list, max_length) ==
  inner_list \o [k \in 1..(max_length - Len(inner_list)) |-> Pad]

MaxLength(lists) == SeqMax([r \in 1..Len(lists) |-> Len(lists[r])])

padded_voxels_of_segs(lists) ==
  [r \in 1..Len(lists) |-> PadTo(lists[r], MaxLength(lists))]

(* shape[1] of a two-dimensional tensor held as a sequence of rows *)
Width(t) == IF t = <<>> THEN 0 ELSE Len(t[1])

Numel(t) == Len(t) * Width(t)

(***************************************************************************)
(* The ray-voxel accumulator (the loop over the collision steps m).        *)
(***************************************************************************)
(* x[idx] of a flat tensor of n entries: negative indices count from the   *)
(* end, anything else out of range is an IndexError                        *)
InRange(idx, n) == idx >= -n /\ idx < n
Wrapped(idx, n) == IF idx < 0 THEN n + idx ELSE idx

valid_voxels_count(voxels_of_segs_tensor) ==
  IF Numel(voxels_of_segs_tensor) = 0 THEN <<>>
  ELSE [r \in 1..Len(voxels_of_segs_tensor) |->
          Cardinality({k \in 1..Width(voxels_of_segs_tensor) :
                          voxels_of_segs_tensor[r][k] # Pad})]

rays_with_voxels(cnt, m) == [r \in 1..Len(cnt) |-> cnt[r] > m]

(* the per-step Jones matrices of the active rays, in ray order *)
StepJones(ctx, m, mask) ==
  LET act == SelectByMask([r \in 1..Len(mask) |-> r], mask)
  IN [k \in 1..Len(act) |->
        LET r == act[k]
            vox == Wrapped(ctx.vox[r][m + 1], Len(ctx.vol.Delta_n)) + 1
        IN voxRayJM(ctx.vol.Delta_n[vox], ctx.vol.optic_axis[vox],
                    ctx.basis[r], ctx.ell[r][m + 1])]

(* material_jones after step m when it was M before *)
CombineStep(M, jones, mask, m) ==
  IF m = 0 THEN jones
  ELSE [r \in 1..Len(M) |->
          IF mask[r] THEN MatMul(M[r], jones[RankIn(mask, r)]) ELSE M[r]]

(* an index of step m that torch rejects *)
StepIndexError(ctx, m, M, mask) ==
  \/ Len(mask) # Len(ctx.ell)
  \/ Len(mask) # Len(ctx.vox)
  \/ m >= Width(ctx.vox)
  \/ \E r \in 1..Len(mask) :
        mask[r] /\ ~InRange(ctx.vox[r][m + 1], Len(ctx.vol.Delta_n))
  \/ Len(mask) # Len(ctx.basis)
  \/ (m > 0 /\ Len(M) # Len(mask))

RECURSIVE JonesLoop(_, _, _)
JonesLoop(ctx, m, M) ==
  IF m >= Width(ctx.ell)
  THEN [kind |-> IF m = 0 THEN "single" ELSE "batch", jones |-> M]
  ELSE LET mask == rays_with_voxels(ctx.cnt, m)
       IN IF StepIndexError(ctx, m, M, mask)
          THEN [kind |-> "IndexError", jones |-> <<>>]
          ELSE JonesLoop(ctx, m + 1,
                         CombineStep(M, StepJones(ctx, m, mask), mask, m))

(* calc_cummulative_JM_of_ray_torch from the point where the voxel         *)
(* indices, path lengths and bases of the batch are known                  *)
accumulate_torch(vol, voxels_of_segs_tensor, ell_in_voxels, ray_dir_basis) ==
  JonesLoop([vol |-> vol, vox |-> voxels_of_segs_tensor,
             ell |-> ell_in_voxels, basis |-> ray_dir_basis,
             cnt |-> valid_voxels_count(voxels_of_segs_tensor)],
            0, <<Identity2>>)

(***************************************************************************)
(* State of one BirefringentRaytraceLFM instance (PyTorch backend) and of  *)
(* the volume it is evaluated on.                                          *)
(***************************************************************************)
VARIABLES
  optical_info,                   \* n_micro_lenses, n_voxels_per_ml, pixels_per_ml, volume_shape
  voxel_span_per_ml,
  vox_ctr_idx,
  ray_valid_indices,              \* pixel <<i, j>> of every valid ray of one lenslet
  ray_vol_colli_indices,          \* per ray, the voxel triples it crosses, in travel order
  ray_vol_colli_lengths,          \* per ray, the path lengths, zero-padded
  ray_direction_basis,            \* per ray, its direction basis
  vox_indices_ml_shifted,         \* dict: offset -> shifted lists (lenslet filtering)
  vox_indices_by_mla_idx,         \* dict: (col idx, row idx) -> shifted lists
  vox_indices_by_mla_idx_tensors, \* dict: (col idx, row idx) -> padded tensor
  vox_indices_ml_shifted_all,
  all_kind,                       \* "list" or "tensor": the type of vox_indices_ml_shifted_all
  ray_valid_indices_all,          \* None is the empty sequence
  MLA_volume_geometry_ready,
  released,                       \* the three attributes set to None by del_arr_unnecessary_for_all_rays_at_once
  use_lenslet_based_filtering,
  nonzero_pixels_dict,
  volume,                         \* Delta_n and optic_axis, flat
  ret,                            \* what the last call returned or raised
  base,                           \* the single-lenslet geometry at construction
  lazy_image                      \* the image of the last unfiltered lazy pass, <<>> before

vars == << optical_info, voxel_span_per_ml, vox_ctr_idx, ray_valid_indices,
           ray_vol_colli_indices, ray_vol_colli_lengths, ray_direction_basis,
           vox_indices_ml_shifted, vox_indices_by_mla_idx,
           vox_indices_by_mla_idx_tensors, vox_indices_ml_shifted_all, all_kind,
           ray_valid_indices_all, MLA_volume_geometry_ready, released,
           use_lenslet_based_filtering, nonzero_pixels_dict, volume, ret, base,
           lazy_image >>

config_vars == << optical_info, voxel_span_per_ml, vox_ctr_idx,
                  ray_valid_indices, nonzero_pixels_dict, volume, base >>

n_micro_lenses == optical_info.n_micro_lenses
n_voxels_per_ml == optical_info.n_voxels_per_ml
pixels_per_ml == optical_info.pixels_per_ml
volume_shape == optical_info.volume_shape

(***************************************************************************)
(* Python dicts keep insertion order: a dict is a sequence of entries.     *)
(***************************************************************************)
HasKey(d, k) == \E e \in 1..Len(d) : d[e].key = k
Get(d, k) == d[CHOOSE e \in 1..Len(d) : d[e].key = k].val
Put(d, k, v) ==
  IF HasKey(d, k)
  THEN [e \in 1..Len(d) |-> IF d[e].key = k THEN [key |-> k, val |-> v] ELSE d[e]]
  ELSE Append(d, [key |-> k, val |-> v])
Keys(d) == [e \in 1..Len(d) |-> d[e].key]

(***************************************************************************)
(* Inputs: the geometry handed over by the ray-geometry solver, the        *)
(* volume and the optical configuration.                                   *)
(***************************************************************************)
BaseVoxels == {<<0, 0, 0>>, <<0, 0, 1>>}

RECURSIVE SeqsUpTo(_, _)
SeqsUpTo(S, k) ==
  IF k = 0 THEN {<<>>}
  ELSE LET shorter == SeqsUpTo(S, k - 1)
       IN shorter \cup {Append(q, x) : q \in {t \in shorter : Len(t) = k - 1}, x \in S}

(* consecutive segments of a ray lie in different voxels *)
NoRepeat(q) == \A k \in 1..(Len(q) - 1) : q[k] # q[k + 1]

CollisionLists == {q \in SeqsUpTo(BaseVoxels, MaxLen) : NoRepeat(q)}

(* the valid rays are the first NumRays pixels in scan order *)
ScanPixels == [r \in 1..NumRays |-> <<(r - 1) \div PixelsPerMl, (r - 1) % PixelsPerMl>>]

(* path lengths of 1 or 3 units, zero after the last segment *)
SolverLengths(colli) ==
  [r \in 1..Len(colli) |->
     [k \in 1..MaxLength(colli) |-> IF k <= Len(colli[r]) THEN 1 + 2 * ((r + k) % 2) ELSE 0]]

SolverBasis(colli) == [r \in 1..Len(colli) |-> r - 1]

MaterialDeltaN == <<1, 1, -1, 0, -1>>
MaterialAxis == <<0, 1, 1, 2, 0>>

VolumeOf(shape, shift) ==
  [Delta_n |-> [f \in 1..(shape[1] * shape[2] * shape[3]) |->
                  MaterialDeltaN[((f + shift) % 5) + 1]],
   optic_axis |-> [f \in 1..(shape[1] * shape[2] * shape[3]) |->
                  MaterialAxis[((f + shift) % 5) + 1]]]

LensletKeys(n) == {<<jj, ii>> : jj \in 0..(n - 1), ii \in 0..(n - 1)}

(* the nonzero-pixel grids: every pixel, none, or a checkerboard that      *)
(* differs from lenslet to lenslet ("inverse" is its complement)           *)
GridOf(pattern, key) ==
  [i \in 0..(PixelsPerMl - 1) |->
     [j \in 0..(PixelsPerMl - 1) |->
        CASE pattern = "all" -> TRUE
          [] pattern = "none" -> FALSE
          [] pattern = "inverse" -> (i + j + key[1] + key[2]) % 2 = 1
          [] OTHER -> (i + j + key[1] + key[2]) % 2 = 0]]

NonzeroDict(pattern, n) == [key \in LensletKeys(n) |-> GridOf(pattern, key)]

Result(op, kind, all, jkind, jones, pix, img, mla, off, filt, warned) ==
  [op |-> op, kind |-> kind, all |-> all, jkind |-> jkind, jones |-> jones,
   pix |-> pix, img |-> img, mla |-> mla, off |-> off, filt |-> filt,
   warned |-> warned]

NoResult ==
  Result("none", "none", FALSE, "none", <<>>, <<>>, <<>>, <<0, 0>>, <<0, 0>>,
         [ell |-> <<>>, basis |-> <<>>, colli |-> <<>>, mask |-> <<>>], FALSE)

Init ==
  /\ \E n \in 1..MaxN, v \in 1..MaxV, ext \in {SmallExtent, LargeExtent} :
       optical_info = [n_micro_lenses |-> n, n_voxels_per_ml |-> v,
                       pixels_per_ml |-> PixelsPerMl,
                       volume_shape |-> <<VolZ, ext, ext>>]
  /\ voxel_span_per_ml \in 1..MaxSpan
  /\ vox_ctr_idx = <<volume_shape[1] \div 2, volume_shape[2] \div 2, volume_shape[3] \div 2>>
  /\ ray_valid_indices = ScanPixels
  /\ ray_vol_colli_indices \in [1..NumRays -> CollisionLists]
  /\ ray_vol_colli_lengths = SolverLengths(ray_vol_colli_indices)
  /\ ray_direction_basis = SolverBasis(ray_vol_colli_indices)
  /\ vox_indices_ml_shifted = <<>>
  /\ vox_indices_by_mla_idx = <<>>
  /\ vox_indices_by_mla_idx_tensors = <<>>
  /\ vox_indices_ml_shifted_all = <<>>
  /\ all_kind = "list"
  /\ ray_valid_indices_all = <<>>
  /\ MLA_volume_geometry_ready = FALSE
  /\ released = FALSE
  /\ \E pattern \in {"off", "all", "none", "checker"} :
       /\ use_lenslet_based_filtering = (pattern # "off")
       /\ nonzero_pixels_dict =
            NonzeroDict(IF pattern = "off" THEN "all" ELSE pattern, n_micro_lenses)
  /\ volume = VolumeOf(volume_shape, 0)
  /\ ret = NoResult
  /\ base = [pix |-> ray_valid_indices, colli |-> ray_vol_colli_indices,
             ell |-> ray_vol_colli_lengths, basis |-> ray_direction_basis]
  /\ lazy_image = <<>>

(***************************************************************************)
(* Images: a sequence of rows of pixel values.                             *)
(***************************************************************************)
Dark == << <<0, 0>>, <<0, 0>>, <<0, 0>>, <<0, 0>> >>

(* an image that is not cleared before the scatter *)
Uncleared(h, w) == [i \in 1..h |-> [j \in 1..w |-> Identity2]]

Zeros(h, w) == [i \in 1..h |-> [j \in 1..w |-> Dark]]

(* img[idx[0, :], idx[1, :]] = values: the values broadcast when there is  *)
(* one of them (or a single matrix), anything else must match in number    *)
ScatterMismatch(pix, jkind, values) ==
  /\ jkind = "batch"
  /\ Len(values) # Len(pix)
  /\ Len(values) # 1

ValueAt(pix, jkind, values, k) ==
  IF jkind = "single" \/ Len(values) = 1 THEN values[1] ELSE values[k]

Scatter(img, pix, jkind, values) ==
  [i \in 1..Len(img) |->
     [j \in 1..Len(img[i]) |->
        LET hits == {k \in 1..Len(pix) : pix[k] = <<i - 1, j - 1>>}
        IN IF hits = {} THEN img[i][j]
           ELSE ValueAt(pix, jkind, values, CHOOSE k \in hits : \A q \in hits : q <= k)]]

ConcatAxis0(img1, img2) == img1 \o img2
ConcatAxis1(img1, img2) == [i \in 1..Len(img1) |-> img1[i] \o img2[i]]

concatenate_images(img_list1, img_list2, axis) ==
  IF img_list1 = <<>> THEN img_list2
  ELSE IF axis = 0 THEN ConcatAxis0(img_list1, img_list2)
  ELSE ConcatAxis1(img_list1, img_list2)

(***************************************************************************)
(* Lenslet-based filtering.                                                *)
(***************************************************************************)
form_mask_from_nonzero_pixels_dict(mla_index) ==
  [r \in 1..Len(ray_valid_indices) |->
     nonzero_pixels_dict[mla_index][ray_valid_indices[r][1]][ray_valid_indices[r][2]]]

NoFilt == [ell |-> <<>>, basis |-> <<>>, colli |-> <<>>, mask |-> <<>>]

(* the masked ray data; mask is the lenslet's mask *)
filter_ray_data_with(mask) ==
  IF released THEN [kind |-> "AssertionError"] @@ NoFilt
  ELSE IF CountTrue(mask) = 0
  THEN [kind |-> "ok", ell |-> <<>>, basis |-> <<>>, colli |-> <<>>, mask |-> mask]
  ELSE IF Len(ray_vol_colli_lengths) # Len(mask)
  THEN [kind |-> "IndexError"] @@ NoFilt
  ELSE [kind |-> "ok",
        ell |-> SelectByMask(ray_vol_colli_lengths, mask),
        basis |-> SelectByMask(ray_direction_basis, mask),
        colli |-> SelectByMask(ray_vol_colli_indices, mask),
        mask |-> mask]

filter_ray_data(mla_index) ==
  IF mla_index \notin DOMAIN nonzero_pixels_dict
  THEN [kind |-> "AssertionError"] @@ NoFilt
  ELSE filter_ray_data_with(form_mask_from_nonzero_pixels_dict(mla_index))

unfiltered_lenslet_indices(mla_index) == ray_valid_indices

retrieve_lenslet_indices(mla_index) ==
  IF use_lenslet_based_filtering
  THEN SelectByMask(ray_valid_indices, form_mask_from_nonzero_pixels_dict(mla_index))
  ELSE ray_valid_indices

(***************************************************************************)
(* calc_cummulative_JM_of_ray_torch.  c holds the three lazy caches        *)
(* (by, tens, shifted); the result carries the caches as the call leaves   *)
(* them, also when it raises.                                              *)
(***************************************************************************)
Caches == [by |-> vox_indices_by_mla_idx, tens |-> vox_indices_by_mla_idx_tensors,
           shifted |-> vox_indices_ml_shifted]

shifted_with_swapped_offset(shifted, microlens_offset, collision_indices) ==
  IF HasKey(shifted, microlens_offset) THEN shifted
  ELSE Put(shifted, microlens_offset,
           gather_voxels_of_rays_pytorch(<<microlens_offset[2], microlens_offset[1]>>,
                                         collision_indices, volume_shape))

update_vox_indices_shifted(shifted, microlens_offset, collision_indices) ==
  IF HasKey(shifted, microlens_offset) THEN shifted
  ELSE Put(shifted, microlens_offset,
           gather_voxels_of_rays_pytorch(microlens_offset, collision_indices, volume_shape))

Failed(kind, c) ==
  [kind |-> kind, vox |-> <<>>, ell |-> <<>>, basis |-> <<>>, c |-> c, filt |-> NoFilt]

(* the filtered branch once the cache of shifted lists is up to date *)
PrepFilteredCached(c, voxels_of_segs, f) ==
  IF Len(voxels_of_segs) # Len(f.colli) THEN Failed("AssertionError", c)
  ELSE [kind |-> "ok", vox |-> padded_voxels_of_segs(voxels_of_segs),
        ell |-> f.ell, basis |-> f.basis, c |-> c,
        filt |-> [ell |-> f.ell, basis |-> f.basis, colli |-> f.colli,
                  mask |-> f.mask]]

PrepFilteredShifted(c, shifted, microlens_offset, f) ==
  PrepFilteredCached([c EXCEPT !.shifted = shifted],
                     Get(shifted, microlens_offset), f)

PrepFilteredWith(c, microlens_offset, all_rays_at_once, f) ==
  IF f.kind # "ok" THEN Failed(f.kind, c)
  ELSE IF all_rays_at_once THEN Failed("NotImplementedError", c)
  ELSE PrepFilteredShifted(
         c, update_vox_indices_shifted(c.shifted, microlens_offset, f.colli),
         microlens_offset, f)

PrepFiltered(c, microlens_offset, mla_index, all_rays_at_once) ==
  PrepFilteredWith(c, microlens_offset, all_rays_at_once, filter_ray_data(mla_index))

PrepFromTensor(c, voxels_of_segs) ==
  [kind |-> "ok", vox |-> voxels_of_segs, ell |-> ray_vol_colli_lengths,
   basis |-> ray_direction_basis, c |-> c, filt |-> NoFilt]

PrepStoreTensor(c, by, mla_index) ==
  PrepFromTensor(
    [c EXCEPT !.by = by,
              !.tens = Put(c.tens, mla_index, padded_voxels_of_segs(Get(by, mla_index)))],
    padded_voxels_of_segs(Get(by, mla_index)))

gathered_with_swapped_offset(by, microlens_offset, mla_index) ==
  IF HasKey(by, mla_index) THEN by
  ELSE Put(by, mla_index,
           gather_voxels_of_rays_pytorch(<<microlens_offset[2], microlens_offset[1]>>,
                                         ray_vol_colli_indices, volume_shape))

(* if mla_index not in self.vox_indices_by_mla_idx.keys(): gather and store *)
cached_or_gathered(by, microlens_offset, mla_index) ==
  IF HasKey(by, mla_index) THEN by
  ELSE Put(by, mla_index,
           gather_voxels_of_rays_pytorch(microlens_offset, ray_vol_colli_indices,
                                         volume_shape))

PrepUnfiltered(c, microlens_offset, mla_index, all_rays_at_once) ==
  IF all_rays_at_once
  THEN IF all_kind = "list" THEN Failed("AttributeError", c)
       ELSE PrepFromTensor(c, vox_indices_ml_shifted_all)
  ELSE IF HasKey(c.tens, mla_index) THEN PrepFromTensor(c, Get(c.tens, mla_index))
  ELSE IF released THEN Failed("AttributeError", c)
  ELSE PrepStoreTensor(c, cached_or_gathered(c.by, microlens_offset, mla_index),
                       mla_index)

Accumulated(prep, acc) ==
  [kind |-> IF acc.kind = "IndexError" THEN "IndexError" ELSE "ok",
   jkind |-> IF acc.kind = "IndexError" THEN "none" ELSE acc.kind,
   jones |-> acc.jones, c |-> prep.c, filt |-> prep.filt]

AccumulateAfter(prep) ==
  IF prep.kind # "ok"
  THEN [kind |-> prep.kind, jkind |-> "none", jones |-> <<>>, c |-> prep.c,
        filt |-> prep.filt]
  ELSE Accumulated(prep, accumulate_torch(volume, prep.vox, prep.ell, prep.basis))

calc_cummulative_JM_of_ray_torch(c, microlens_offset, mla_index, all_rays_at_once) ==
  AccumulateAfter(IF use_lenslet_based_filtering
                  THEN PrepFiltered(c, microlens_offset, mla_index, all_rays_at_once)
                  ELSE PrepUnfiltered(c, microlens_offset, mla_index, all_rays_at_once))

(* img[indices] = f(effective_jones) on a fresh image of size x size *)
FillImage(effective_jones, indices, size) ==
  IF effective_jones.kind # "ok"
  THEN effective_jones @@ [img |-> <<>>, pix |-> <<>>]
  ELSE IF ScatterMismatch(indices, effective_jones.jkind, effective_jones.jones)
  THEN [effective_jones EXCEPT !.kind = "RuntimeError"]
         @@ [img |-> <<>>, pix |-> indices]
  ELSE effective_jones
         @@ [img |-> Scatter(Zeros(size, size), indices, effective_jones.jkind,
                             effective_jones.jones),
             pix |-> indices]

(* one lenslet's image *)
ret_and_azim_images_torch(c, microlens_offset, mla_index) ==
  FillImage(calc_cummulative_JM_of_ray_torch(c, microlens_offset, mla_index, FALSE),
            retrieve_lenslet_indices(mla_index), pixels_per_ml)

(***************************************************************************)
(* ray_trace_through_volume.                                               *)
(***************************************************************************)
calculate_min_volume_size(num_microlenses, num_voxels_per_ml) ==
  voxel_span_per_ml + num_microlenses * num_voxels_per_ml

(* _validate_volume_size prints a warning and returns: raise_error is False *)
validate_volume_size_warns(min_required_volume_size, shape) ==
  min_required_volume_size > shape[2] \/ min_required_volume_size > shape[3]

validate_volume_size_raises(min_required_volume_size, shape) ==
  LET raise_error == FALSE
  IN validate_volume_size_warns(min_required_volume_size, shape) /\ raise_error

n_ml_half == FloorDiv2(n_micro_lenses)

(* the e-th lenslet of the double loop, rows (ml_ii) outside *)
LoopIiIdx(e) == (e - 1) \div n_micro_lenses
LoopJjIdx(e) == (e - 1) % n_micro_lenses
LoopOffset(e) ==
  calculate_current_offset(LoopIiIdx(e) - n_ml_half, LoopJjIdx(e) - n_ml_half,
                           n_voxels_per_ml, n_micro_lenses, vox_ctr_idx)
LoopMlaIndex(e) == <<LoopJjIdx(e), LoopIiIdx(e)>>

RECURSIVE LazyLoop(_, _, _, _)
RECURSIVE LazyRow(_, _, _, _)
RECURSIVE LazyNext(_, _, _, _)

(* the row list with the lenslet's image appended goes into the full list  *)
(* when the row is complete                                                *)
LazyRow(c, e, full_img_list, full_img_row_list) ==
  LazyLoop(c, e + 1,
           IF LoopJjIdx(e) = n_micro_lenses - 1
           THEN concatenate_images(full_img_list, full_img_row_list, 1)
           ELSE full_img_list,
           full_img_row_list)

LazyNext(img_list, e, full_img_list, full_img_row_list) ==
  IF img_list.kind # "ok"
  THEN [kind |-> img_list.kind, img |-> <<>>, c |-> img_list.c, at |-> e]
  ELSE LazyRow(img_list.c, e, full_img_list,
               concatenate_images(IF LoopJjIdx(e) = 0 THEN <<>> ELSE full_img_row_list,
                                  img_list.img, 0))

LazyLoop(c, e, full_img_list, full_img_row_list) ==
  IF e > n_micro_lenses * n_micro_lenses
  THEN [kind |-> "ok", img |-> full_img_list, c |-> c, at |-> e]
  ELSE LazyNext(ret_and_azim_images_torch(c, LoopOffset(e), LoopMlaIndex(e)),
                e, full_img_list, full_img_row_list)

ret_and_azim_images_mla_torch ==
  FillImage(calc_cummulative_JM_of_ray_torch(Caches, <<0, 0>>, <<0, 0>>, TRUE),
            ray_valid_indices_all, pixels_per_ml * n_micro_lenses)

SetCaches(c) ==
  /\ vox_indices_by_mla_idx' = c.by
  /\ vox_indices_by_mla_idx_tensors' = c.tens
  /\ vox_indices_ml_shifted' = c.shifted

geometry_vars == << ray_vol_colli_indices, ray_vol_colli_lengths, ray_direction_basis,
                    vox_indices_ml_shifted_all, all_kind, ray_valid_indices_all,
                    MLA_volume_geometry_ready, released >>

Refused(op, kind, all_rays_at_once, warned) ==
  /\ ret' = Result(op, kind, all_rays_at_once, "none", <<>>, <<>>, <<>>,
                   <<0, 0>>, <<0, 0>>, NoFilt, warned)
  /\ UNCHANGED << vox_indices_by_mla_idx, vox_indices_by_mla_idx_tensors,
                  vox_indices_ml_shifted, lazy_image >>

EagerPass(full_img_list, warned) ==
  /\ ret' = Result("ray_trace_through_volume", full_img_list.kind, TRUE,
                   full_img_list.jkind, full_img_list.jones, full_img_list.pix,
                   full_img_list.img, <<0, 0>>, <<0, 0>>, full_img_list.filt, warned)
  /\ SetCaches(full_img_list.c)
  /\ UNCHANGED lazy_image

LazyPass(full_img_list, warned) ==
  /\ ret' = Result("ray_trace_through_volume", full_img_list.kind, FALSE, "none",
                   <<>>, <<>>, full_img_list.img, <<0, 0>>, <<0, 0>>, NoFilt, warned)
  /\ SetCaches(full_img_list.c)
  /\ lazy_image' = IF full_img_list.kind = "ok" /\ ~use_lenslet_based_filtering
                   THEN full_img_list.img ELSE lazy_image

flag_always_accepted(all_rays_at_once) == FALSE

(* if all_rays_at_once != self.MLA_volume_geometry_ready: raise ValueError *)
flag_differs_from_ready(all_rays_at_once) ==
  all_rays_at_once # MLA_volume_geometry_ready

RayTraceChecked(all_rays_at_once, min_required_volume_size) ==
  IF flag_differs_from_ready(all_rays_at_once)
  THEN Refused("ray_trace_through_volume", "ValueError", all_rays_at_once, FALSE)
  ELSE IF validate_volume_size_raises(min_required_volume_size, volume_shape)
  THEN Refused("ray_trace_through_volume", "ValueError", all_rays_at_once, TRUE)
  ELSE IF all_rays_at_once
  THEN EagerPass(ret_and_azim_images_mla_torch,
                 validate_volume_size_warns(min_required_volume_size, volume_shape))
  ELSE LazyPass(LazyLoop(Caches, 1, <<>>, <<>>),
                validate_volume_size_warns(min_required_volume_size, volume_shape))

RayTraceThroughVolume(all_rays_at_once) ==
  /\ RayTraceChecked(all_rays_at_once,
                     calculate_min_volume_size(n_micro_lenses, n_voxels_per_ml))
  /\ UNCHANGED << config_vars, geometry_vars, use_lenslet_based_filtering >>


(***************************************************************************)
(* One lenslet on its own: generate_images -> ret_and_azim_images_torch,   *)
(* called as the double loop calls it for the lenslet.                     *)
(***************************************************************************)
CenterLenslet == n_ml_half * n_micro_lenses + n_ml_half + 1

SingleCallLenslets == {CenterLenslet}

LensletImage(image_list, e) ==
  /\ ret' = Result("ret_and_azim_images_torch", image_list.kind, FALSE,
                   image_list.jkind, image_list.jones, image_list.pix,
                   image_list.img, LoopMlaIndex(e), LoopOffset(e),
                   image_list.filt, FALSE)
  /\ SetCaches(image_list.c)

RetAndAzimImagesTorch(e) ==
  /\ LensletImage(ret_and_azim_images_torch(Caches, LoopOffset(e), LoopMlaIndex(e)), e)
  /\ UNCHANGED << config_vars, geometry_vars, use_lenslet_based_filtering,
                  lazy_image >>

(***************************************************************************)
(* calc_cummulative_JM_of_ray_numpy: one pixel (i, j) of one lenslet.      *)
(***************************************************************************)
(* the bounds check of segment m of ray n_ray (1-based) *)
numpy_in_bounds(n_ray, microlens_offset, m) ==
  LET vox == ray_vol_colli_indices[n_ray][m]
      y_index == vox[2] + microlens_offset[1]
      z_index == vox[3] + microlens_offset[2]
      y_in_bounds == 0 <= y_index /\ y_index < volume_shape[2]
      z_in_bounds == 0 <= z_index /\ z_index < volume_shape[3]
  IN y_in_bounds /\ z_in_bounds

numpy_voxel(n_ray, microlens_offset, m) ==
  ravel_index(<<ray_vol_colli_indices[n_ray][m][1],
                ray_vol_colli_indices[n_ray][m][2] + microlens_offset[1],
                ray_vol_colli_indices[n_ray][m][3] + microlens_offset[2]>>,
              volume_shape) + 1

jones_list_numpy(n_ray, microlens_offset) ==
  [m \in 1..Len(ray_vol_colli_indices[n_ray]) |->
     voxRayJM(volume.Delta_n[numpy_voxel(n_ray, microlens_offset, m)],
              volume.optic_axis[numpy_voxel(n_ray, microlens_offset, m)],
              ray_direction_basis[n_ray], ray_vol_colli_lengths[n_ray][m])]

calc_cummulative_JM_of_ray_numpy(i, j, microlens_offset) ==
  IF j + i * pixels_per_ml + 1 > Len(ray_direction_basis)
  THEN [kind |-> "IndexError", jones |-> <<>>]
  ELSE IF released THEN [kind |-> "Exception", jones |-> <<>>]
  ELSE IF j + i * pixels_per_ml + 1 > Len(ray_vol_colli_indices)
  THEN [kind |-> "UnboundLocalError", jones |-> <<>>]
  ELSE IF \E m \in 1..Len(ray_vol_colli_indices[j + i * pixels_per_ml + 1]) :
            ~numpy_in_bounds(j + i * pixels_per_ml + 1, microlens_offset, m)
  THEN [kind |-> "IndexError", jones |-> <<>>]
  ELSE [kind |-> "ok",
        jones |-> <<rayJM_numpy(jones_list_numpy(j + i * pixels_per_ml + 1,
                                                 microlens_offset))>>]

(* the pixels of the first and of the last valid ray *)
NumpyPixels == {ScanPixels[1], ScanPixels[NumRays]}

NumpyCall(material_jones, i, j, e) ==
  ret' = Result("calc_cummulative_JM_of_ray_numpy", material_jones.kind,
                FALSE, IF material_jones.kind = "ok" THEN "single" ELSE "none",
                material_jones.jones, <<<<i, j>>>>, <<>>, LoopMlaIndex(e),
                LoopOffset(e), NoFilt, FALSE)

CalcJMNumpy(i, j, e) ==
  /\ NumpyCall(calc_cummulative_JM_of_ray_numpy(i, j, LoopOffset(e)), i, j, e)
  /\ UNCHANGED << config_vars, geometry_vars, use_lenslet_based_filtering,
                  lazy_image, vox_indices_by_mla_idx,
                  vox_indices_by_mla_idx_tensors, vox_indices_ml_shifted >>

(***************************************************************************)
(* Building the whole-array geometry.                                      *)
(***************************************************************************)
RECURSIVE store_shifted_vox_indices_from(_, _)
store_shifted_vox_indices_from(by, e) ==
  IF e > n_micro_lenses * n_micro_lenses THEN by
  ELSE LET vox_list == gather_voxels_of_rays_pytorch(LoopOffset(e),
                                                     ray_vol_colli_indices, volume_shape)
       IN store_shifted_vox_indices_from(
            IF HasKey(by, LoopMlaIndex(e)) THEN by ELSE Put(by, LoopMlaIndex(e), vox_list),
            e + 1)

store_shifted_vox_indices(by) == store_shifted_vox_indices_from(by, 1)

HasNegativeValues(by) ==
  \E e \in 1..Len(by) : \E r \in 1..Len(by[e].val) :
     \E k \in 1..Len(by[e].val[r]) : by[e].val[r][k] < 0

convert_to_tensors(by) ==
  [e \in 1..Len(by) |-> [key |-> by[e].key, val |-> padded_voxels_of_segs(by[e].val)]]

create_colli_indices_all(tens) == Flatten([e \in 1..Len(tens) |-> tens[e].val])

ShiftPixels(pix, d) == [r \in 1..Len(pix) |-> <<pix[r][1] + d[1], pix[r][2] + d[2]>>]

ray_valid_indices_without_offset ==
  Repeat(ray_valid_indices, n_micro_lenses * n_micro_lenses)

create_ray_valid_indices_all ==
  Flatten([e \in 1..(n_micro_lenses * n_micro_lenses) |->
             ShiftPixels(ray_valid_indices,
                         <<LoopJjIdx(e) * pixels_per_ml, LoopIiIdx(e) * pixels_per_ml>>)])

Release ==
  /\ vox_indices_by_mla_idx' = <<>>
  /\ vox_indices_ml_shifted' = <<>>
  /\ ray_vol_colli_indices' = <<>>
  /\ released' = TRUE

Done(op, kind) ==
  Result(op, kind, FALSE, "none", <<>>, <<>>, <<>>, <<0, 0>>, <<0, 0>>, NoFilt, FALSE)

(* the not-ready branch; by is vox_indices_by_mla_idx after                 *)
(* store_shifted_vox_indices, whose check for negative indices may raise   *)
PrepareBuild(by) ==
  /\ use_lenslet_based_filtering' = FALSE
  /\ \/ /\ vox_indices_by_mla_idx = <<>>
        /\ HasNegativeValues(by)
        /\ vox_indices_by_mla_idx' = by
        /\ ret' = Done("prepare_for_all_rays_at_once", "ValueError")
        /\ UNCHANGED << vox_indices_by_mla_idx_tensors,
                        vox_indices_ml_shifted_all, all_kind,
                        ray_valid_indices_all, ray_vol_colli_lengths,
                        ray_direction_basis, MLA_volume_geometry_ready,
                        vox_indices_ml_shifted, ray_vol_colli_indices,
                        released >>
     \/ /\ vox_indices_by_mla_idx_tensors' = convert_to_tensors(by)
        /\ vox_indices_ml_shifted_all' = create_colli_indices_all(convert_to_tensors(by))
        /\ all_kind' = "tensor"
        /\ ray_valid_indices_all' = create_ray_valid_indices_all
        /\ ray_vol_colli_lengths' =
             Repeat(ray_vol_colli_lengths, n_micro_lenses * n_micro_lenses)
        /\ ray_direction_basis' =
             Repeat(ray_direction_basis, n_micro_lenses * n_micro_lenses)
        /\ MLA_volume_geometry_ready' = TRUE
        /\ Release
        /\ ret' = Done("prepare_for_all_rays_at_once", "ok")

PrepareForAllRaysAtOnce ==
  /\ IF MLA_volume_geometry_ready
     THEN /\ Release
          /\ ret' = Done("prepare_for_all_rays_at_once", "ok")
          /\ UNCHANGED << vox_indices_by_mla_idx_tensors, vox_indices_ml_shifted_all,
                          all_kind, ray_valid_indices_all, ray_vol_colli_lengths,
                          ray_direction_basis, MLA_volume_geometry_ready,
                          use_lenslet_based_filtering >>
     ELSE PrepareBuild(IF vox_indices_by_mla_idx = <<>>
                       THEN store_shifted_vox_indices(vox_indices_by_mla_idx)
                       ELSE vox_indices_by_mla_idx)
  /\ UNCHANGED << config_vars, lazy_image >>

geometry_rebuilt_when_ready == FALSE

(* if self.MLA_volume_geometry_ready: return *)
precompute_returns_early == MLA_volume_geometry_ready

PrecomputeMLAVolumeGeometry ==
  LET min_needed_volume_size == voxel_span_per_ml + n_micro_lenses * n_voxels_per_ml
  IN /\ IF precompute_returns_early
        THEN /\ ret' = Done("precompute_MLA_volume_geometry", "ok")
             /\ UNCHANGED geometry_vars
        ELSE IF ~(min_needed_volume_size <= volume_shape[2]
                  /\ min_needed_volume_size <= volume_shape[3])
        THEN /\ ret' = Done("precompute_MLA_volume_geometry", "AssertionError")
             /\ UNCHANGED geometry_vars
        ELSE /\ vox_indices_ml_shifted_all' =
                  vox_indices_ml_shifted_all
                    \o Flatten([e \in 1..(n_micro_lenses * n_micro_lenses) |->
                                  gather_voxels_of_rays_pytorch(
                                    LoopOffset(e), ray_vol_colli_indices, volume_shape)])
             /\ ray_valid_indices_all' = ray_valid_indices_all \o create_ray_valid_indices_all
             /\ ray_vol_colli_lengths' =
                  Repeat(ray_vol_colli_lengths, n_micro_lenses * n_micro_lenses)
             /\ ray_direction_basis' =
                  Repeat(ray_direction_basis, n_micro_lenses * n_micro_lenses)
             /\ MLA_volume_geometry_ready' = TRUE
             /\ ret' = Done("precompute_MLA_volume_geometry", "ok")
             /\ UNCHANGED << all_kind, ray_vol_colli_indices, released >>
     /\ UNCHANGED << config_vars, lazy_image, use_lenslet_based_filtering,
                     vox_indices_by_mla_idx, vox_indices_by_mla_idx_tensors,
                     vox_indices_ml_shifted >>

(***************************************************************************)
(* filter_from_radiometry.                                                 *)
(***************************************************************************)
RadiometryPatterns == {"all", "none", "checker"}

RadiometryValue(pattern, i, j) ==
  CASE pattern = "all" -> TRUE
    [] pattern = "none" -> FALSE
    [] OTHER -> (i + j) % 2 = 0

(* a mask read at the position of the ray in the list, not at its pixel *)
mask_by_position(ray_indices, pattern) ==
  [k \in 1..Len(ray_indices) |-> RadiometryValue(pattern, k, 0)]

(* mask_utils.get_bool_mask_for_ray_indices *)
get_bool_mask_for_ray_indices(ray_indices, pattern) ==
  [k \in 1..Len(ray_indices) |->
     RadiometryValue(pattern, ray_indices[k][1], ray_indices[k][2])]

first_rays_of_basis(ray_dir_basis, radiomask) ==
  SubSeq(ray_dir_basis, 1, CountTrue(radiomask))

(* ray_dir_basis[:, radiomask, :] *)
basis_of_kept_rays(ray_dir_basis, radiomask) == SelectByMask(ray_dir_basis, radiomask)

FilterFromRadiometry(pattern) ==
  LET ray_indices == ray_valid_indices_all
      voxel_indices == vox_indices_ml_shifted_all
      collision_lengths == ray_vol_colli_lengths
      ray_dir_basis == ray_direction_basis
      radiomask == get_bool_mask_for_ray_indices(ray_indices, pattern)
      before == [ell |-> collision_lengths, basis |-> ray_dir_basis,
                 colli |-> voxel_indices, mask |-> radiomask]
      Returned(kind) ==
        Result("filter_from_radiometry", kind, FALSE, "none", <<>>, ray_indices,
               <<>>, <<0, 0>>, <<0, 0>>, before, FALSE)
  IN /\ IF ~MLA_volume_geometry_ready
        THEN /\ ret' = Done("filter_from_radiometry", "AssertionError")
             /\ UNCHANGED << ray_valid_indices_all, vox_indices_ml_shifted_all,
                             ray_vol_colli_lengths, ray_direction_basis >>
        ELSE /\ ray_valid_indices_all' = SelectByMask(ray_indices, radiomask)
             /\ IF all_kind = "list"
                THEN /\ ret' = Returned("TypeError")
                     /\ UNCHANGED << vox_indices_ml_shifted_all,
                                     ray_vol_colli_lengths, ray_direction_basis >>
                ELSE IF Len(voxel_indices) # Len(radiomask)
                THEN /\ ret' = Returned("IndexError")
                     /\ UNCHANGED << vox_indices_ml_shifted_all,
                                     ray_vol_colli_lengths, ray_direction_basis >>
                ELSE /\ vox_indices_ml_shifted_all' = SelectByMask(voxel_indices, radiomask)
                     /\ IF Len(collision_lengths) # Len(radiomask)
                        THEN /\ ret' = Returned("IndexError")
                             /\ UNCHANGED << ray_vol_colli_lengths, ray_direction_basis >>
                        ELSE /\ ray_vol_colli_lengths' =
                                  SelectByMask(collision_lengths, radiomask)
                             /\ IF Len(ray_dir_basis) # Len(radiomask)
                                THEN /\ ret' = Returned("IndexError")
                                     /\ UNCHANGED ray_direction_basis
                                ELSE /\ ray_direction_basis' =
                                          basis_of_kept_rays(ray_dir_basis, radiomask)
                                     /\ ret' = Returned("ok")
     /\ UNCHANGED << config_vars, lazy_image, use_lenslet_based_filtering,
                     vox_indices_by_mla_idx, vox_indices_by_mla_idx_tensors,
                     vox_indices_ml_shifted, all_kind, ray_vol_colli_indices,
                     MLA_volume_geometry_ready, released >>

(***************************************************************************)
(* The revision without voxel supersampling (one lenslet at a time, no     *)
(* caches): ret_and_azim_images_torch -> calc_cummulative_JM_of_ray_torch  *)
(* -> rayJM_torch.  The volume is indexed with three coordinates.          *)
(***************************************************************************)
legacy_in_volume(x, dims) == \A a \in 1..3 : InRange(x[a], dims[a])

legacy_voxel(x, dims) ==
  ravel_index(<<Wrapped(x[1], dims[1]), Wrapped(x[2], dims[2]), Wrapped(x[3], dims[3])>>,
              dims) + 1

legacy_shifted(vox, micro_lens_offset) ==
  <<vox[1], vox[2] + micro_lens_offset[1], vox[3] + micro_lens_offset[2]>>

legacy_rays_with_voxels(voxels_of_segs, m) ==
  [r \in 1..Len(voxels_of_segs) |-> Len(voxels_of_segs[r]) > m]

(* the matrices of step m, one per ray that still has a voxel *)
legacy_JM(micro_lens_offset, m) ==
  LET act == SelectByMask([r \in 1..Len(ray_vol_colli_indices) |-> r],
                          legacy_rays_with_voxels(ray_vol_colli_indices, m))
  IN [k \in 1..Len(act) |->
        LET f == legacy_voxel(legacy_shifted(ray_vol_colli_indices[act[k]][m + 1],
                                             micro_lens_offset), volume_shape)
        IN voxRayJM(volume.Delta_n[f], volume.optic_axis[f],
                    ray_direction_basis[act[k]], ray_vol_colli_lengths[act[k]][m + 1])]

legacy_step_raises(micro_lens_offset, m) ==
  \E r \in 1..Len(ray_vol_colli_indices) :
     /\ Len(ray_vol_colli_indices[r]) > m
     /\ ~legacy_in_volume(legacy_shifted(ray_vol_colli_indices[r][m + 1],
                                         micro_lens_offset), volume_shape)

RECURSIVE rayJM_torch_from(_, _, _, _)
rayJM_torch_from(product, JMlist, voxels_of_segs, ix) ==
  IF ix >= Len(JMlist) THEN [kind |-> "ok", jones |-> product]
  ELSE LET mask == legacy_rays_with_voxels(voxels_of_segs, ix)
       IN IF Len(mask) # Len(product) THEN [kind |-> "IndexError", jones |-> <<>>]
          ELSE rayJM_torch_from(
                 [r \in 1..Len(product) |->
                    IF mask[r] THEN MatMul(product[r], JMlist[ix + 1][RankIn(mask, r)])
                    ELSE product[r]],
                 JMlist, voxels_of_segs, ix + 1)

rayJM_torch(JMlist, voxels_of_segs) ==
  IF JMlist = <<>> THEN [kind |-> "IndexError", jones |-> <<>>]
  ELSE LET n_rays == Len(JMlist[1])
       IN rayJM_torch_from([r \in 1..n_rays |-> Identity2], JMlist, voxels_of_segs, 0)

legacy_calc_cummulative_JM_of_ray_torch(micro_lens_offset) ==
  IF \E m \in 0..(Width(ray_vol_colli_lengths) - 1) :
        legacy_step_raises(micro_lens_offset, m)
  THEN [kind |-> "IndexError", jones |-> <<>>]
  ELSE rayJM_torch([m \in 1..Width(ray_vol_colli_lengths) |->
                      legacy_JM(micro_lens_offset, m - 1)],
                   ray_vol_colli_indices)

LegacyLenslets == {<<0, 0>>}

LegacyImage(effective_JM, micro_lens_offset, mla) ==
  IF effective_JM.kind # "ok" \/ Len(effective_JM.jones) < Len(ray_valid_indices)
  THEN ret' = Result("legacy_ret_and_azim_images_torch", "IndexError", FALSE,
                     "none", <<>>, ray_valid_indices, <<>>, mla, micro_lens_offset,
                     NoFilt, FALSE)
  ELSE ret' = Result("legacy_ret_and_azim_images_torch", "ok", FALSE, "batch",
                     effective_JM.jones, ray_valid_indices,
                     Scatter(Zeros(pixels_per_ml, pixels_per_ml), ray_valid_indices,
                             "batch", effective_JM.jones),
                     mla, micro_lens_offset, NoFilt, FALSE)

legacy_ret_and_azim_images_torch(micro_lens_offset, mla) ==
  LegacyImage(legacy_calc_cummulative_JM_of_ray_torch(micro_lens_offset),
              micro_lens_offset, mla)

LegacyRetAndAzimImagesTorch(ml_ii, ml_jj) ==
     /\ ~MLA_volume_geometry_ready
     /\ ~released
     /\ legacy_ret_and_azim_images_torch(
          legacy_micro_lens_offset(ml_ii, ml_jj, n_voxels_per_ml, n_micro_lenses,
                                   vox_ctr_idx),
          <<ml_jj + n_ml_half, ml_ii + n_ml_half>>)
     /\ UNCHANGED << config_vars, geometry_vars, use_lenslet_based_filtering,
                     lazy_image, vox_indices_by_mla_idx,
                     vox_indices_by_mla_idx_tensors, vox_indices_ml_shifted >>

(***************************************************************************)
(* The specification.                                                      *)
(***************************************************************************)
Next ==
  \/ \E e \in SingleCallLenslets : RetAndAzimImagesTorch(e)
  \/ \E px \in NumpyPixels, e \in SingleCallLenslets : CalcJMNumpy(px[1], px[2], e)
  \/ \E all_rays_at_once \in BOOLEAN : RayTraceThroughVolume(all_rays_at_once)
  \/ PrepareForAllRaysAtOnce
  \/ PrecomputeMLAVolumeGeometry
  \/ \E pattern \in RadiometryPatterns : FilterFromRadiometry(pattern)
  \/ \E ml \in LegacyLenslets : LegacyRetAndAzimImagesTorch(ml[1], ml[2])

Spec == Init /\ [][Next]_vars

(***************************************************************************)
(* A session in which the caller changes optical_info between two forward  *)
(* passes: ray_trace_through_volume reads n_micro_lenses and               *)
(* n_voxels_per_ml from the dict at every call.                            *)
(***************************************************************************)
ChangeOpticalInfo(n, v) ==
  /\ ret.op = "ray_trace_through_volume"
  /\ <<n, v>> # <<n_micro_lenses, n_voxels_per_ml>>
  /\ optical_info' = [optical_info EXCEPT !.n_micro_lenses = n, !.n_voxels_per_ml = v]
  /\ ret' = Done("optical_info", "ok")
  /\ UNCHANGED << voxel_span_per_ml, vox_ctr_idx, ray_valid_indices,
                  nonzero_pixels_dict, volume, base, geometry_vars,
                  use_lenslet_based_filtering, lazy_image, vox_indices_by_mla_idx,
                  vox_indices_by_mla_idx_tensors, vox_indices_ml_shifted >>

InitReconfigured == Init /\ ~use_lenslet_based_filtering

NextReconfigured ==
  \/ \E all_rays_at_once \in BOOLEAN : RayTraceThroughVolume(all_rays_at_once)
  \/ PrepareForAllRaysAtOnce
  \/ \E n \in 1..MaxN, v \in 1..MaxV : ChangeOpticalInfo(n, v)

SpecReconfigured == InitReconfigured /\ [][NextReconfigured]_vars

(***************************************************************************)
(* The revision without voxel supersampling, both back ends on one         *)
(* lenslet: calc_cummulative_JM_of_ray_numpy for one pixel and             *)
(* calc_cummulative_JM_of_ray_torch for the batch of valid rays, as        *)
(* test_compute_JonesMatrices_retardance_and_azimuth calls them.           *)
(***************************************************************************)
legacy_jones_list_numpy(n_ray) ==
  [m \in 1..Len(ray_vol_colli_indices[n_ray]) |->
     LET f == legacy_voxel(ray_vol_colli_indices[n_ray][m], volume_shape)
     IN voxRayJM(volume.Delta_n[f], volume.optic_axis[f],
                 ray_direction_basis[n_ray], ray_vol_colli_lengths[n_ray][m])]

legacy_calc_cummulative_JM_of_ray_numpy(i, j) ==
  LET n_ray == j + i * pixels_per_ml + 1
  IN IF n_ray > Len(ray_direction_basis) \/ n_ray > Len(ray_vol_colli_indices)
     THEN [kind |-> "IndexError", jones |-> <<>>]
     ELSE IF \E m \in 1..Len(ray_vol_colli_indices[n_ray]) :
               ~legacy_in_volume(ray_vol_colli_indices[n_ray][m], volume_shape)
     THEN [kind |-> "IndexError", jones |-> <<>>]
     ELSE [kind |-> "ok", jones |-> <<rayJM_numpy(legacy_jones_list_numpy(n_ray))>>]

LegacyJonesResult(op, effective_JM, pix) ==
  ret' = Result(op, effective_JM.kind, FALSE,
                IF effective_JM.kind = "ok" THEN "batch" ELSE "none",
                effective_JM.jones, pix, <<>>, <<0, 0>>, <<0, 0>>, NoFilt, FALSE)

LegacyCalcJMNumpy(i, j) ==
  /\ LegacyJonesResult("legacy_calc_cummulative_JM_of_ray_numpy",
                       legacy_calc_cummulative_JM_of_ray_numpy(i, j), <<<<i, j>>>>)
  /\ UNCHANGED << config_vars, geometry_vars, use_lenslet_based_filtering,
                  lazy_image, vox_indices_by_mla_idx,
                  vox_indices_by_mla_idx_tensors, vox_indices_ml_shifted >>

LegacyCalcJMTorch ==
  /\ LegacyJonesResult("legacy_calc_cummulative_JM_of_ray_torch",
                       legacy_calc_cummulative_JM_of_ray_torch(<<0, 0>>),
                       ray_valid_indices)
  /\ UNCHANGED << config_vars, geometry_vars, use_lenslet_based_filtering,
                  lazy_image, vox_indices_by_mla_idx,
                  vox_indices_by_mla_idx_tensors, vox_indices_ml_shifted >>

NextLegacyJones ==
  \/ \E r \in 1..NumRays : LegacyCalcJMNumpy(ScanPixels[r][1], ScanPixels[r][2])
  \/ LegacyCalcJMTorch

SpecLegacyJones == Init /\ [][NextLegacyJones]_vars

(***************************************************************************)
(* The per-voxel Jones routines of the revision without voxel              *)
(* supersampling, on one voxel.  Angles are in units of pi/4, one unit of  *)
(* |Delta_n| * ell is a retardance of pi.                                  *)
(***************************************************************************)
(* arctan2(dot(opticAxis, rayDir[1]), dot(opticAxis, rayDir[2])) *)
arctan2_of(opticAxis, rayDir) == opticAxis + rayDir

azim_from_arctan2(Delta_n, opticAxis, rayDir) == arctan2_of(opticAxis, rayDir)

(* if Delta_n == 0: azim = 0  elif Delta_n < 0: azim = azim + np.pi / 2 *)
azim_numpy(Delta_n, opticAxis, rayDir) ==
  IF Delta_n = 0 THEN 0
  ELSE IF Delta_n < 0 THEN arctan2_of(opticAxis, rayDir) + 2
  ELSE arctan2_of(opticAxis, rayDir)

(* azim[Delta_n==0] = 0 ; azim[Delta_n<0] += torch.pi / 2 *)
azim_torch(Delta_n, opticAxis, rayDir) ==
  LET zeroed == IF Delta_n = 0 THEN 0 ELSE arctan2_of(opticAxis, rayDir)
  IN IF Delta_n < 0 THEN zeroed + 2 ELSE zeroed

(* [[diag1, offdiag], [offdiag, diag2]] *)
JonesOfRetAzim(ret_half, azim) ==
  << <<CosQ(ret_half), CosQ(azim) * SinQ(ret_half)>>,
     <<0, SinQ(azim) * SinQ(ret_half)>>,
     <<0, SinQ(azim) * SinQ(ret_half)>>,
     Conj(<<CosQ(ret_half), CosQ(azim) * SinQ(ret_half)>>) >>

voxRayJM_numpy(Delta_n, opticAxis, rayDir, ell) ==
  JonesOfRetAzim(Abs(Delta_n) * ell, azim_numpy(Delta_n, opticAxis, rayDir))

voxRayJM_torch(Delta_n, opticAxis, rayDir, ell) ==
  JonesOfRetAzim(Abs(Delta_n) * ell, azim_torch(Delta_n, opticAxis, rayDir))

VoxelResult(op, Delta_n, opticAxis, rayDir, ell, azim, JM) ==
  [op |-> op, Delta_n |-> Delta_n, opticAxis |-> opticAxis, rayDir |-> rayDir,
   ell |-> ell, azim |-> azim, jones |-> JM]

VoxRayJMNumpy(Delta_n, opticAxis, rayDir, ell) ==
  /\ ret' = VoxelResult("voxRayJM_numpy", Delta_n, opticAxis, rayDir, ell,
                        azim_numpy(Delta_n, opticAxis, rayDir),
                        voxRayJM_numpy(Delta_n, opticAxis, rayDir, ell))
  /\ UNCHANGED << config_vars, geometry_vars, use_lenslet_based_filtering,
                  lazy_image, vox_indices_by_mla_idx,
                  vox_indices_by_mla_idx_tensors, vox_indices_ml_shifted >>

VoxRayJMTorch(Delta_n, opticAxis, rayDir, ell) ==
  /\ ret' = VoxelResult("voxRayJM_torch", Delta_n, opticAxis, rayDir, ell,
                        azim_torch(Delta_n, opticAxis, rayDir),
                        voxRayJM_torch(Delta_n, opticAxis, rayDir, ell))
  /\ UNCHANGED << config_vars, geometry_vars, use_lenslet_based_filtering,
                  lazy_image, vox_indices_by_mla_idx,
                  vox_indices_by_mla_idx_tensors, vox_indices_ml_shifted >>

(* one lenslet, no ray crossing a voxel: the routines are static methods *)
InitVoxel ==
  /\ Init
  /\ n_micro_lenses = 1
  /\ n_voxels_per_ml = 1
  /\ volume_shape = <<VolZ, SmallExtent, SmallExtent>>
  /\ ~use_lenslet_based_filtering
  /\ \A r \in 1..NumRays : ray_vol_colli_indices[r] = <<>>

NextVoxel ==
  \E Delta_n \in (-MaxDeltaN)..MaxDeltaN, opticAxis \in 0..MaxAngle,
     rayDir \in 0..MaxAngle, ell \in {1, 3} :
       \/ VoxRayJMNumpy(Delta_n, opticAxis, rayDir, ell)
       \/ VoxRayJMTorch(Delta_n, opticAxis, rayDir, ell)

SpecVoxel == InitVoxel /\ [][NextVoxel]_vars

(***************************************************************************)
(* BirefringentVolume: the birefringence and the optic axis of every       *)
(* voxel, built from one pair or from one array entry per voxel.  A number *)
(* is finite or NaN; an optic axis is a vector of three integers over a    *)
(* common denominator, so that a unit vector is exact.                     *)
(***************************************************************************)
Num(v) == [nan |-> FALSE, v |-> v]

NaN == [nan |-> TRUE, v |-> 0]

Vec(num, den) == [nan |-> FALSE, num |-> num, den |-> den]

NaNVec == [nan |-> TRUE, num |-> <<0, 0, 0>>, den |-> 1]

(* np.linalg.norm of an optic axis whose norm is an integer *)
oa_norm_of(axis) ==
  LET sq == axis[1] * axis[1] + axis[2] * axis[2] + axis[3] * axis[3]
  IN  CHOOSE k \in 0..sq : k * k = sq

(* x[isnan(x)] = 0 *)
nan_to_zero(x) == IF x.nan THEN Num(0) ELSE x

(* the NaN of a zero-norm axis left in place *)
nan_kept_axis(a) == a

nan_to_zero_axis(a) == IF a.nan THEN Vec(<<0, 0, 0>>, 1) ELSE a

voxel_count(shape) == shape[1] * shape[2] * shape[3]

Replicate(x, k) == [q \in 1..k |-> x]

handle_single_optic_axis_numpy(optic_axis, shape) ==
  LET oa_norm == oa_norm_of(optic_axis)
  IN  Replicate(IF oa_norm # 0 THEN Vec(optic_axis, oa_norm)
                ELSE Vec(optic_axis, 1), voxel_count(shape))

handle_single_optic_axis_torch(optic_axis, shape) ==
  LET oa_norm == oa_norm_of(optic_axis)
  IN  Replicate(IF oa_norm # 0 THEN Vec(optic_axis, oa_norm)
                ELSE Vec(optic_axis, 1), voxel_count(shape))

handle_3d_optic_axis_numpy(optic_axis) ==
  [q \in DOMAIN optic_axis |->
     LET oa_norm == oa_norm_of(optic_axis[q])
     IN  IF oa_norm > 0 THEN Vec(optic_axis[q], oa_norm)
         ELSE Vec(optic_axis[q], 1)]

(* the division is unconditional: 0 / 0 is NaN in every component *)
handle_3d_optic_axis_torch(optic_axis) ==
  [q \in DOMAIN optic_axis |->
     LET oa_norm == oa_norm_of(optic_axis[q])
     IN  IF oa_norm = 0 THEN NaNVec ELSE Vec(optic_axis[q], oa_norm)]

(* Delta_n and optic_axis are the arguments of the constructor: one value  *)
(* and one axis (is_3d false) or one entry per voxel (is_3d true)          *)
initialize_numpy_backend(Delta_n, optic_axis, is_3d, shape) ==
  LET axis == IF is_3d THEN handle_3d_optic_axis_numpy(optic_axis)
              ELSE handle_single_optic_axis_numpy(optic_axis, shape)
      dn   == IF is_3d THEN Delta_n ELSE Replicate(Delta_n, voxel_count(shape))
  IN  [Delta_n    |-> [q \in DOMAIN dn |-> nan_to_zero(dn[q])],
       optic_axis |-> [q \in DOMAIN axis |-> nan_to_zero_axis(axis[q])]]

initialize_pytorch_backend(Delta_n, optic_axis, is_3d, shape) ==
  LET axis == IF is_3d THEN handle_3d_optic_axis_torch(optic_axis)
              ELSE handle_single_optic_axis_torch(optic_axis, shape)
      dn   == IF is_3d THEN Delta_n ELSE Replicate(Delta_n, voxel_count(shape))
  IN  [Delta_n    |-> [q \in DOMAIN dn |-> nan_to_zero(dn[q])],
       optic_axis |-> [q \in DOMAIN axis |-> nan_to_zero_axis(axis[q])]]

initialize_volume_attributes(backend, Delta_n, optic_axis, is_3d, shape) ==
  IF backend = "numpy"
  THEN initialize_numpy_backend(Delta_n, optic_axis, is_3d, shape)
  ELSE initialize_pytorch_backend(Delta_n, optic_axis, is_3d, shape)

(* the arguments of the two forms of one (Delta_n, optic_axis) pair *)
DeltaNArgument(Delta_n, is_3d, shape) ==
  IF is_3d THEN Replicate(Delta_n, voxel_count(shape)) ELSE Delta_n

OpticAxisArgument(optic_axis, is_3d, shape) ==
  IF is_3d THEN Replicate(optic_axis, voxel_count(shape)) ELSE optic_axis

BuildVolume(backend, Delta_n, optic_axis, is_3d) ==
  /\ ret' = [op |-> "BirefringentVolume", backend |-> backend,
             is_3d |-> is_3d, Delta_n_in |-> Delta_n,
             optic_axis_in |-> optic_axis,
             built |-> initialize_volume_attributes(
                         backend,
                         DeltaNArgument(Delta_n, is_3d, volume_shape),
                         OpticAxisArgument(optic_axis, is_3d, volume_shape),
                         is_3d, volume_shape)]
  /\ UNCHANGED << config_vars, geometry_vars, use_lenslet_based_filtering,
                  lazy_image, vox_indices_by_mla_idx,
                  vox_indices_by_mla_idx_tensors, vox_indices_ml_shifted >>

BuildVolumeNumpy(Delta_n, optic_axis, is_3d) ==
  BuildVolume("numpy", Delta_n, optic_axis, is_3d)

BuildVolumeTorch(Delta_n, optic_axis, is_3d) ==
  BuildVolume("torch", Delta_n, optic_axis, is_3d)

DeltaNInputs == {Num(d) : d \in (-MaxDeltaN)..MaxDeltaN} \cup {NaN}

(* optic axes of norm 0, 1, 2, 3 and 5 *)
OpticAxisInputs ==
  {<<0, 0, 0>>, <<1, 0, 0>>, <<0, -2, 0>>, <<2, -2, 1>>, <<3, 4, 0>>,
   <<0, -3, 4>>}

InitVolume ==
  /\ Init
  /\ n_micro_lenses = 1
  /\ n_voxels_per_ml = 1
  /\ ~use_lenslet_based_filtering
  /\ \A r \in 1..NumRays : ray_vol_colli_indices[r] = <<>>

NextVolume ==
  \E Delta_n \in DeltaNInputs, optic_axis \in OpticAxisInputs,
     is_3d \in BOOLEAN :
       \/ BuildVolumeNumpy(Delta_n, optic_axis, is_3d)
       \/ BuildVolumeTorch(Delta_n, optic_axis, is_3d)

SpecVolume == InitVolume /\ [][NextVolume]_vars

(***************************************************************************)
(* calc_cummulative_JM_of_ray_torch with its loop over the collision steps *)
(* taken one step at a time: ret holds the position m of the loop, the     *)
(* running material_jones and the tensors of the call.                     *)
(***************************************************************************)
InLoop == ret.op = "calc_cummulative_JM_of_ray_torch" /\ ret.kind = "running"

LoopState(kind, m, material_jones, ctx, e) ==
  [op |-> "calc_cummulative_JM_of_ray_torch", kind |-> kind, m |-> m,
   material_jones |-> material_jones, ctx |-> ctx, mla |-> LoopMlaIndex(e),
   off |-> LoopOffset(e)]

NoContext ==
  [vol |-> volume, vox |-> <<>>, ell |-> <<>>, basis |-> <<>>, cnt |-> <<>>]

(* up to material_jones = self._get_default_jones() *)
EnterLoop(prep, e) ==
  /\ ret' = IF prep.kind # "ok" THEN LoopState(prep.kind, 0, <<>>, NoContext, e)
            ELSE LoopState("running", 0, <<Identity2>>,
                           [vol |-> volume, vox |-> prep.vox, ell |-> prep.ell,
                            basis |-> prep.basis,
                            cnt |-> valid_voxels_count(prep.vox)], e)
  /\ vox_indices_by_mla_idx' = prep.c.by
  /\ vox_indices_by_mla_idx_tensors' = prep.c.tens
  /\ vox_indices_ml_shifted' = prep.c.shifted

BeginAccumulation(e) ==
  /\ ~InLoop
  /\ EnterLoop(PrepUnfiltered(Caches, LoopOffset(e), LoopMlaIndex(e), FALSE), e)
  /\ UNCHANGED << config_vars, geometry_vars, use_lenslet_based_filtering,
                  lazy_image >>

(* one pass of the body of for m in range(ell_in_voxels.shape[1]) *)
StepOutcome(st, mask) ==
  IF StepIndexError(st.ctx, st.m, st.material_jones, mask)
  THEN [st EXCEPT !.kind = "IndexError", !.material_jones = <<>>]
  ELSE [st EXCEPT !.m = st.m + 1,
                  !.material_jones =
                     CombineStep(st.material_jones,
                                 StepJones(st.ctx, st.m, mask), mask, st.m)]

AccumulationStep ==
  /\ InLoop
  /\ ret.m < Width(ret.ctx.ell)
  /\ ret' = StepOutcome(ret, rays_with_voxels(ret.ctx.cnt, ret.m))
  /\ UNCHANGED << config_vars, geometry_vars, use_lenslet_based_filtering,
                  lazy_image, vox_indices_by_mla_idx,
                  vox_indices_by_mla_idx_tensors, vox_indices_ml_shifted >>

(* return material_jones *)
AccumulationReturn ==
  /\ InLoop
  /\ ret.m >= Width(ret.ctx.ell)
  /\ ret' = [ret EXCEPT !.kind = "ok"]
  /\ UNCHANGED << config_vars, geometry_vars, use_lenslet_based_filtering,
                  lazy_image, vox_indices_by_mla_idx,
                  vox_indices_by_mla_idx_tensors, vox_indices_ml_shifted >>

InitAccumulate ==
  /\ Init
  /\ n_voxels_per_ml = 1
  /\ ~use_lenslet_based_filtering

(* the calls are those for the lenslets of the first row of the array *)
NextAccumulate ==
  \/ \E e \in 1..n_micro_lenses : BeginAccumulation(e)
  \/ AccumulationStep
  \/ AccumulationReturn

SpecAccumulate == InitAccumulate /\ [][NextAccumulate]_vars

(* a call that has started runs on: the loop is sequential code *)
SpecAccumulateFair ==
  SpecAccumulate /\ WF_vars(AccumulationStep) /\ WF_vars(AccumulationReturn)

(***************************************************************************)
(* ret_and_azim_images_numpy: the image of one lenslet, pixel by pixel.    *)
(***************************************************************************)
(* np.isnan(self.ray_entry[0, i, j]): the ray of pixel (i, j) misses the   *)
(* volume, so it is not among the valid rays                               *)
ray_entry_isnan(i, j) ==
  \A r \in 1..Len(ray_valid_indices) : ray_valid_indices[r] # <<i, j>>

(* the pixels whose call raises, numbered in the order of the two loops *)
numpy_raising_pixels(microlens_offset) ==
  {i * pixels_per_ml + j : i \in 0..(pixels_per_ml - 1), j \in 0..(pixels_per_ml - 1)}
    \cap {q \in 0..(pixels_per_ml * pixels_per_ml - 1) :
            /\ ~ray_entry_isnan(q \div pixels_per_ml, q % pixels_per_ml)
            /\ calc_cummulative_JM_of_ray_numpy(q \div pixels_per_ml, q % pixels_per_ml,
                                                microlens_offset).kind # "ok"}

numpy_first_raising(raising, microlens_offset) ==
  LET q == CHOOSE x \in raising : \A y \in raising : x <= y
  IN calc_cummulative_JM_of_ray_numpy(q \div pixels_per_ml, q % pixels_per_ml,
                                      microlens_offset).kind

ret_and_azim_images_numpy(microlens_offset) ==
  IF numpy_raising_pixels(microlens_offset) # {}
  THEN [kind |-> numpy_first_raising(numpy_raising_pixels(microlens_offset),
                                     microlens_offset),
        img |-> <<>>]
  ELSE [kind |-> "ok",
        img |-> [a \in 1..pixels_per_ml |->
                   [b \in 1..pixels_per_ml |->
                      IF ray_entry_isnan(a - 1, b - 1) THEN Dark
                      ELSE calc_cummulative_JM_of_ray_numpy(
                             a - 1, b - 1, microlens_offset).jones[1]]]]

NumpyImage(image_list, e) ==
  ret' = Result("ret_and_azim_images_numpy", image_list.kind, FALSE, "none",
                <<>>, <<>>, image_list.img, LoopMlaIndex(e), LoopOffset(e),
                NoFilt, FALSE)

RetAndAzimImagesNumpy(e) ==
  /\ NumpyImage(ret_and_azim_images_numpy(LoopOffset(e)), e)
  /\ UNCHANGED << config_vars, geometry_vars, use_lenslet_based_filtering,
                  lazy_image, vox_indices_by_mla_idx,
                  vox_indices_by_mla_idx_tensors, vox_indices_ml_shifted >>

(* the operations of the instance together with the numpy image *)
NextImages ==
  \/ Next
  \/ \E e \in SingleCallLenslets : RetAndAzimImagesNumpy(e)

SpecImages == Init /\ [][NextImages]_vars

(***************************************************************************)
(* calc_cummulative_JM_of_ray called directly, in lazy mode without        *)
(* filtering, with a microlens_offset and an mla_index of the caller's     *)
(* choice (both have defaults: [0, 0] and (0, 0)).                         *)
(***************************************************************************)
MaxShift == 1

CallOffsets == (0..MaxShift) \X (0..MaxShift)

(* the default index and one other *)
CallIndices == {<<0, 0>>, <<1, 0>>}

CummulativeJones(effective_jones, microlens_offset, mla_index) ==
  /\ ret' = Result("calc_cummulative_JM_of_ray", effective_jones.kind, FALSE,
                   effective_jones.jkind, effective_jones.jones, <<>>, <<>>,
                   mla_index, microlens_offset, effective_jones.filt, FALSE)
  /\ SetCaches(effective_jones.c)

CalcCummulativeJMOfRay(microlens_offset, mla_index) ==
  /\ CummulativeJones(calc_cummulative_JM_of_ray_torch(Caches, microlens_offset,
                                                       mla_index, FALSE),
                      microlens_offset, mla_index)
  /\ UNCHANGED << config_vars, geometry_vars, use_lenslet_based_filtering,
                  lazy_image >>

InitOffsets ==
  /\ Init
  /\ n_micro_lenses = 1
  /\ n_voxels_per_ml = 1
  /\ ~use_lenslet_based_filtering

NextOffsets ==
  \E microlens_offset \in CallOffsets, mla_index \in CallIndices :
     CalcCummulativeJMOfRay(microlens_offset, mla_index)

SpecOffsets == InitOffsets /\ [][NextOffsets]_vars

(***************************************************************************)
(* A session with lenslet-based filtering in which the caller assigns a    *)
(* new nonzero_pixels_dict between two forward passes.                     *)
(***************************************************************************)
MaskPatterns == {"all", "none", "checker", "inverse"}

ChangeNonzeroPixels(pattern) ==
  /\ nonzero_pixels_dict # NonzeroDict(pattern, n_micro_lenses)
  /\ nonzero_pixels_dict' = NonzeroDict(pattern, n_micro_lenses)
  /\ ret' = Done("nonzero_pixels_dict", "ok")
  /\ UNCHANGED << optical_info, voxel_span_per_ml, vox_ctr_idx, ray_valid_indices,
                  volume, base, geometry_vars, use_lenslet_based_filtering,
                  lazy_image, vox_indices_by_mla_idx,
                  vox_indices_by_mla_idx_tensors, vox_indices_ml_shifted >>

InitMaskChanged == Init /\ use_lenslet_based_filtering

NextMaskChanged ==
  \/ RayTraceThroughVolume(FALSE)
  \/ \E e \in SingleCallLenslets : RetAndAzimImagesTorch(e)
  \/ \E pattern \in MaskPatterns : ChangeNonzeroPixels(pattern)

SpecMaskChanged == InitMaskChanged /\ [][NextMaskChanged]_vars

(***************************************************************************)
(* intensity_images (PyTorch): calc_cummulative_JM_lenslet returns the     *)
(* accumulator's matrices, and each of the five settings scatters one      *)
(* intensity per matrix into a cleared image.  The five images differ in   *)
(* the polarizer only; a pixel holds the matrix its intensity comes from.  *)
(***************************************************************************)
calc_cummulative_JM_lenslet(c, microlens_offset, mla_index) ==
  calc_cummulative_JM_of_ray_torch(c, microlens_offset, mla_index, FALSE)

(* torch.linalg.norm(E_out, axis=1) of the two-vector that a single 2 x 2   *)
(* matrix gives has no axis 1; intensity_image[ray_valid_indices] =         *)
(* intensity takes every valid ray's pixel                                  *)
IntensityScatter(lenslet_jones) ==
  IF lenslet_jones.kind # "ok"
  THEN lenslet_jones @@ [img |-> <<>>, pix |-> <<>>]
  ELSE IF lenslet_jones.jkind = "single"
  THEN [lenslet_jones EXCEPT !.kind = "IndexError"] @@ [img |-> <<>>, pix |-> <<>>]
  ELSE FillImage(lenslet_jones, ray_valid_indices, pixels_per_ml)

intensity_images(c, microlens_offset, mla_index) ==
  IntensityScatter(calc_cummulative_JM_lenslet(c, microlens_offset, mla_index))

IntensityImage(image_list, e) ==
  /\ ret' = Result("intensity_images", image_list.kind, FALSE,
                   image_list.jkind, image_list.jones, image_list.pix,
                   image_list.img, LoopMlaIndex(e), LoopOffset(e),
                   image_list.filt, FALSE)
  /\ SetCaches(image_list.c)

IntensityImages(e) ==
  /\ IntensityImage(intensity_images(Caches, LoopOffset(e), LoopMlaIndex(e)), e)
  /\ UNCHANGED << config_vars, geometry_vars, use_lenslet_based_filtering,
                  lazy_image >>

(* one lenslet at a time, with lenslet-based filtering *)
InitFilteredLenslet == Init /\ use_lenslet_based_filtering

NextFilteredLenslet ==
  \/ \E e \in SingleCallLenslets : RetAndAzimImagesTorch(e)
  \/ \E e \in SingleCallLenslets : IntensityImages(e)

SpecFilteredLenslet == InitFilteredLenslet /\ [][NextFilteredLenslet]_vars

(***************************************************************************)
(* The lazy forward pass of both revisions with the lenslets enumerated    *)
(* from the ranges of the two loops, on a cubic volume.                    *)
(***************************************************************************)
(* range(a, b) *)
range(a, b) == [k \in 1..(b - a) |-> a + k - 1]

get_row_iterable(half, odd_mla_shift) == range(-half, half + odd_mla_shift)

(* the lenslets in the order of the double loop: enumerate() gives the     *)
(* index, the range gives the position counted from the middle             *)
lazy_evaluations ==
  LET odd_mla_shift == n_micro_lenses % 2
      row_iterable == get_row_iterable(n_ml_half, odd_mla_shift)
      col_iterable == range(-n_ml_half, n_ml_half + odd_mla_shift)
  IN Flatten([a \in 1..Len(row_iterable) |->
                [b \in 1..Len(col_iterable) |->
                   [mla_index |-> <<b - 1, a - 1>>,
                    current_offset |->
                      calculate_current_offset(row_iterable[a], col_iterable[b],
                                               n_voxels_per_ml, n_micro_lenses,
                                               vox_ctr_idx)]]])

(* the revision without voxel supersampling: range(-n_ml_half, n_ml_half+1) *)
legacy_iterable == range(-n_ml_half, n_ml_half + 1)

legacy_lenslet_image(effective_JM) ==
  IF effective_JM.kind # "ok" \/ Len(effective_JM.jones) < Len(ray_valid_indices)
  THEN [kind |-> "IndexError", img |-> <<>>]
  ELSE [kind |-> "ok",
        img |-> Scatter(Zeros(pixels_per_ml, pixels_per_ml), ray_valid_indices,
                        "batch", effective_JM.jones)]

legacy_image_of(ml_ii, ml_jj) ==
  legacy_lenslet_image(
    legacy_calc_cummulative_JM_of_ray_torch(
      legacy_micro_lens_offset(ml_ii, ml_jj, n_voxels_per_ml, n_micro_lenses,
                               vox_ctr_idx)))

RECURSIVE legacy_row(_, _, _)
RECURSIVE legacy_rows(_, _, _)

(* torch.cat((full_img_row, image), 0) over ml_jj; b is the next position *)
legacy_row(ml_ii, b, full_img_row) ==
  IF b > Len(legacy_iterable) THEN [kind |-> "ok", img |-> full_img_row]
  ELSE LET image == legacy_image_of(ml_ii, legacy_iterable[b])
       IN IF image.kind # "ok" THEN image
          ELSE legacy_row(ml_ii, b + 1, concatenate_images(full_img_row, image.img, 0))

(* torch.cat((full_img, full_img_row), 1) over ml_ii *)
legacy_rows(a, full_img, evaluated) ==
  IF a > Len(legacy_iterable)
  THEN [kind |-> "ok", img |-> full_img, evaluated |-> evaluated]
  ELSE LET full_img_row == legacy_row(legacy_iterable[a], 1, <<>>)
       IN IF full_img_row.kind # "ok"
          THEN [kind |-> full_img_row.kind, img |-> <<>>, evaluated |-> evaluated]
          ELSE legacy_rows(a + 1, concatenate_images(full_img, full_img_row.img, 1),
                           evaluated \o [b \in 1..Len(legacy_iterable) |->
                                           <<legacy_iterable[a], legacy_iterable[b]>>])

legacy_ray_trace_through_volume ==
  IF ~(voxel_span_per_ml * n_micro_lenses < volume_shape[1])
  THEN [kind |-> "AssertionError", img |-> <<>>, evaluated |-> <<>>]
  ELSE legacy_rows(1, <<>>, <<>>)

LegacyPass(full_img) ==
  ret' = [op |-> "legacy_ray_trace_through_volume", kind |-> full_img.kind,
          all |-> FALSE, img |-> full_img.img, evaluated |-> full_img.evaluated]

LegacyRayTraceThroughVolume ==
  /\ LegacyPass(legacy_ray_trace_through_volume)
  /\ UNCHANGED << config_vars, geometry_vars, use_lenslet_based_filtering,
                  lazy_image, vox_indices_by_mla_idx,
                  vox_indices_by_mla_idx_tensors, vox_indices_ml_shifted >>

(* as Init, without filtering and with a volume of the same extent along   *)
(* its three axes                                                          *)
InitCubic ==
  /\ \E n \in 1..MaxN, v \in 1..MaxV, ext \in {SmallExtent, LargeExtent} :
       optical_info = [n_micro_lenses |-> n, n_voxels_per_ml |-> v,
                       pixels_per_ml |-> PixelsPerMl,
                       volume_shape |-> <<ext, ext, ext>>]
  /\ voxel_span_per_ml \in 1..MaxSpan
  /\ vox_ctr_idx = <<volume_shape[1] \div 2, volume_shape[2] \div 2, volume_shape[3] \div 2>>
  /\ ray_valid_indices = ScanPixels
  /\ ray_vol_colli_indices \in [1..NumRays -> CollisionLists]
  /\ ray_vol_colli_lengths = SolverLengths(ray_vol_colli_indices)
  /\ ray_direction_basis = SolverBasis(ray_vol_colli_indices)
  /\ vox_indices_ml_shifted = <<>>
  /\ vox_indices_by_mla_idx = <<>>
  /\ vox_indices_by_mla_idx_tensors = <<>>
  /\ vox_indices_ml_shifted_all = <<>>
  /\ all_kind = "list"
  /\ ray_valid_indices_all = <<>>
  /\ MLA_volume_geometry_ready = FALSE
  /\ released = FALSE
  /\ use_lenslet_based_filtering = FALSE
  /\ nonzero_pixels_dict = NonzeroDict("all", n_micro_lenses)
  /\ volume = VolumeOf(volume_shape, 0)
  /\ ret = NoResult
  /\ base = [pix |-> ray_valid_indices, colli |-> ray_vol_colli_indices,
             ell |-> ray_vol_colli_lengths, basis |-> ray_direction_basis]
  /\ lazy_image = <<>>

NextLazyPasses ==
  \/ RayTraceThroughVolume(FALSE)
  \/ LegacyRayTraceThroughVolume

SpecLazyPasses == InitCubic /\ [][NextLazyPasses]_vars

(***************************************************************************)
(* Vocabulary of the properties.                                           *)
(***************************************************************************)
ShiftedVoxel(vox, off) == <<vox[1], vox[2] + off[1], vox[3] + off[2]>>

InsideVolume(x) == \A a \in 1..3 : x[a] >= 0 /\ x[a] < volume_shape[a]

RayInside(r, off) ==
  \A k \in 1..Len(base.colli[r]) : InsideVolume(ShiftedVoxel(base.colli[r][k], off))

AllInside(off) == \A r \in 1..Len(base.colli) : RayInside(r, off)

Lenslets == 1..(n_micro_lenses * n_micro_lenses)

NoEmptyRay == \A r \in 1..Len(base.colli) : base.colli[r] # <<>>

(* the Jones matrix of segment k of ray r for a lenslet at offset off *)
SegmentJones(r, k, off) ==
  LET f == ravel_index(ShiftedVoxel(base.colli[r][k], off), volume_shape) + 1
  IN voxRayJM(volume.Delta_n[f], volume.optic_axis[f], base.basis[r], base.ell[r][k])

RECURSIVE OrderedProduct(_)
OrderedProduct(list) ==
  IF list = <<>> THEN Identity2 ELSE MatMul(Head(list), OrderedProduct(Tail(list)))

ExpectedJones(r, off) ==
  OrderedProduct([k \in 1..Len(base.colli[r]) |-> SegmentJones(r, k, off)])

RayOfPixel(px) == px[2] + px[1] * pixels_per_ml + 1

SingleLensletCall ==
  /\ ret.op = "ret_and_azim_images_torch"
  /\ ~use_lenslet_based_filtering
  /\ ~MLA_volume_geometry_ready

(* the offset the specification gives the lenslet at (row, col), counted   *)
(* from the middle of the array                                            *)
SpecOffset(row, col) ==
  <<n_voxels_per_ml * row + vox_ctr_idx[2] - FloorDiv2(n_voxels_per_ml * n_micro_lenses),
    n_voxels_per_ml * col + vox_ctr_idx[3] - FloorDiv2(n_voxels_per_ml * n_micro_lenses)>>

VolumeFits ==
  /\ n_voxels_per_ml * n_micro_lenses + voxel_span_per_ml < volume_shape[2]
  /\ n_voxels_per_ml * n_micro_lenses + voxel_span_per_ml < volume_shape[3]

KthTrue(mask, k) == CHOOSE q \in 1..Len(mask) : mask[q] /\ RankIn(mask, q) = k

(* after is before with exactly the rays of the mask, in their order *)
KeepsRays(before, after, mask) ==
  /\ Len(after) = CountTrue(mask)
  /\ \A k \in 1..Len(after) : after[k] = before[KthTrue(mask, k)]

(* C1: for every ray with a non-empty collision list the accumulator       *)
(* returns the product of the segments' Jones matrices in collision-list   *)
(* order, from the per-ray numpy product and from the batched torch        *)
(* accumulation.                                                           *)
C1_OrderedProduct ==
  /\ (ret.op = "calc_cummulative_JM_of_ray_numpy" /\ ret.kind = "ok")
       => ret.jones[1] = ExpectedJones(RayOfPixel(ret.pix[1]), ret.off)
  /\ (SingleLensletCall /\ AllInside(ret.off)
        /\ \E r \in 1..NumRays : base.colli[r] # <<>>)
       => /\ ret.jkind = "batch"
          /\ \A r \in 1..NumRays :
                base.colli[r] # <<>>
                  => r <= Len(ret.jones) /\ ret.jones[r] = ExpectedJones(r, ret.off)

(* C2: an eager pass over the geometry built by prepare_for_all_rays_at_   *)
(* once returns the image the lazy pass returned for the same volume and   *)
(* geometry.                                                               *)
C2_LazyEqualsEager ==
  (/\ ret.op = "ray_trace_through_volume"
   /\ ret.all
   /\ lazy_image # <<>>
   /\ all_kind = "tensor"
   /\ ray_valid_indices_all = create_ray_valid_indices_all
   /\ \A e \in Lenslets : AllInside(LoopOffset(e)))
    => ret.kind = "ok" /\ ret.img = lazy_image

(* C3: the accumulator returns one matrix per ray of the batch, and the    *)
(* identity for every ray whose collision list is empty, in both           *)
(* revisions.                                                              *)
C3_EmptyRaysKeepIdentity ==
  ((SingleLensletCall \/ ret.op = "legacy_ret_and_azim_images_torch")
     /\ AllInside(ret.off))
    => /\ ret.jkind = "batch"
       /\ Len(ret.jones) = NumRays
       /\ \A r \in 1..NumRays : base.colli[r] = <<>> => ret.jones[r] = Identity2

(* C4: the offset used for the lenslet at (row, col) is                    *)
(* v * (row, col) + volume_center - v * n / 2 on the lateral axes, in a    *)
(* single-lenslet call of either revision and in the whole-array geometry. *)
C4_LensletOffset ==
  /\ ret.op \in {"ret_and_azim_images_torch", "legacy_ret_and_azim_images_torch",
                 "calc_cummulative_JM_of_ray_numpy"}
       => ret.off = SpecOffset(ret.mla[2] - n_ml_half, ret.mla[1] - n_ml_half)
  /\ (ret.op = "precompute_MLA_volume_geometry" /\ ret.kind = "ok" /\ all_kind = "list")
       => vox_indices_ml_shifted_all =
            Flatten([e \in Lenslets |->
                       gather_voxels_of_rays_pytorch(
                         SpecOffset(LoopIiIdx(e) - n_ml_half, LoopJjIdx(e) - n_ml_half),
                         base.colli, volume_shape)])

(* C5: a forward pass over rays that all cross the volume, in which an     *)
(* offset moves a collision voxel outside the volume on a lateral axis,    *)
(* fails with an index error.                                              *)
C5_OutOfBoundsRaises ==
  /\ (ret.op = "calc_cummulative_JM_of_ray_numpy" /\ ~released
        /\ ~MLA_volume_geometry_ready /\ ~RayInside(RayOfPixel(ret.pix[1]), ret.off))
       => ret.kind = "IndexError"
  /\ (SingleLensletCall /\ NoEmptyRay /\ ~AllInside(ret.off))
       => ret.kind = "IndexError"
  /\ (ret.op = "ray_trace_through_volume" /\ ~ret.all /\ ret.kind # "ValueError"
        /\ ~use_lenslet_based_filtering /\ NoEmptyRay
        /\ \E e \in Lenslets : ~AllInside(LoopOffset(e)))
       => ret.kind = "IndexError"

(* C6: a filter that returns keeps, for every retained ray, its pixel, its *)
(* voxel list, its path lengths and its basis at one position of the four  *)
(* outputs, in the original order: filter_from_radiometry on the whole     *)
(* array, _filter_ray_data with _retrieve_lenslet_indices on one lenslet.  *)
C6_FilterKeepsCorrespondence ==
  /\ (ret.op = "filter_from_radiometry" /\ ret.kind = "ok")
       => /\ KeepsRays(ret.pix, ray_valid_indices_all, ret.filt.mask)
          /\ KeepsRays(ret.filt.colli, vox_indices_ml_shifted_all, ret.filt.mask)
          /\ KeepsRays(ret.filt.ell, ray_vol_colli_lengths, ret.filt.mask)
          /\ KeepsRays(ret.filt.basis, ray_direction_basis, ret.filt.mask)
  /\ (ret.op = "ret_and_azim_images_torch" /\ ret.kind = "ok"
        /\ use_lenslet_based_filtering)
       => /\ KeepsRays(ray_valid_indices, ret.pix, ret.filt.mask)
          /\ KeepsRays(ray_vol_colli_indices, ret.filt.colli, ret.filt.mask)
          /\ KeepsRays(ray_vol_colli_lengths, ret.filt.ell, ret.filt.mask)
          /\ KeepsRays(ray_direction_basis, ret.filt.basis, ret.filt.mask)

(* a radiometry filter returned after dropping a ray that stood before a   *)
(* retained one, in an array of several lenslets                           *)
C6_Witness ==
  /\ ret.op = "filter_from_radiometry"
  /\ ret.kind = "ok"
  /\ n_micro_lenses > 1
  /\ \E k \in 1..Len(ret.filt.mask) :
       ~ret.filt.mask[k] /\ \E q \in (k + 1)..Len(ret.filt.mask) : ret.filt.mask[q]
  /\ \E k \in 1..Len(ray_vol_colli_lengths) : ray_vol_colli_lengths[k] # <<>>

(* C7: once MLA_volume_geometry_ready is True, a call of                   *)
(* precompute_MLA_volume_geometry or prepare_for_all_rays_at_once leaves   *)
(* vox_indices_ml_shifted_all, ray_valid_indices_all, ray_vol_colli_lengths*)
(* and ray_direction_basis as they are.                                    *)
C7_ReadyGeometryNotRebuilt ==
  [][(MLA_volume_geometry_ready
        /\ ret'.op \in {"precompute_MLA_volume_geometry", "prepare_for_all_rays_at_once"})
       => UNCHANGED << vox_indices_ml_shifted_all, ray_valid_indices_all,
                       ray_vol_colli_lengths, ray_direction_basis >>]_vars

(* precompute_MLA_volume_geometry was called on the geometry that          *)
(* prepare_for_all_rays_at_once had built for several lenslets, and the    *)
(* path lengths are still replicated once                                  *)
C7_Witness ==
  /\ ret.op = "precompute_MLA_volume_geometry"
  /\ MLA_volume_geometry_ready
  /\ all_kind = "tensor"
  /\ n_micro_lenses > 1
  /\ Len(ray_vol_colli_lengths) = NumRays * n_micro_lenses * n_micro_lenses

(* C8: while v * n + span < extent fails on a lateral axis, no whole-array *)
(* geometry is built, the ready flag is False, and a call that builds the  *)
(* geometry raises.                                                        *)
C8_SmallVolumeRejected ==
  ~VolumeFits
    => /\ ~MLA_volume_geometry_ready
       /\ vox_indices_ml_shifted_all = <<>>
       /\ ray_valid_indices_all = <<>>
       /\ ret.op \in {"precompute_MLA_volume_geometry", "prepare_for_all_rays_at_once"}
            => ret.kind # "ok"

(* C9: ray_trace_through_volume raises and returns no image when           *)
(* voxel_span_per_ml + n * v exceeds the volume extent on a lateral axis.  *)
C9_NoImageWhenTooSmall ==
  (ret.op = "ray_trace_through_volume"
     /\ validate_volume_size_warns(
          calculate_min_volume_size(n_micro_lenses, n_voxels_per_ml), volume_shape))
    => ret.kind # "ok" /\ ret.img = <<>>

(* C10: in an array of odd size the central lenslet is computed with the   *)
(* offset of the single-lenslet (n = 1) computation on the same volume.    *)
C10_CentralEqualsSingle ==
  (ret.op = "ret_and_azim_images_torch" /\ n_micro_lenses % 2 = 1
     /\ ret.mla = <<n_ml_half, n_ml_half>>)
    => ret.off = calculate_current_offset(0, 0, n_voxels_per_ml, 1, vox_ctr_idx)

(* the list the lenslet with key (col, row) reads: the base collision      *)
(* lists moved by the lenslet's offset, as flat indices                    *)
ShiftedBaseLists(key, colli) ==
  [r \in 1..Len(colli) |->
     [k \in 1..Len(colli[r]) |->
        ravel_index(ShiftedVoxel(colli[r][k],
                                 SpecOffset(key[2] - n_ml_half, key[1] - n_ml_half)),
                    volume_shape)]]

(* every key of the dict d is a key of d2, with the same value *)
EntriesKept(d, d2) ==
  \A e \in 1..Len(d) : \E e2 \in 1..Len(d2) : d2[e2] = d[e]

(* the three lazy caches hold, under every key, the shifted base lists of  *)
(* the key's lenslet (of its unmasked rays where rays are filtered)        *)
CachesHoldShiftedLists ==
  /\ \A e \in 1..Len(vox_indices_by_mla_idx) :
        vox_indices_by_mla_idx[e].val =
          ShiftedBaseLists(vox_indices_by_mla_idx[e].key, base.colli)
  /\ \A e \in 1..Len(vox_indices_by_mla_idx_tensors) :
        vox_indices_by_mla_idx_tensors[e].val =
          padded_voxels_of_segs(
            ShiftedBaseLists(vox_indices_by_mla_idx_tensors[e].key, base.colli))
  /\ \A e \in 1..Len(vox_indices_ml_shifted) :
        \E key \in LensletKeys(n_micro_lenses) :
           /\ SpecOffset(key[2] - n_ml_half, key[1] - n_ml_half)
                = vox_indices_ml_shifted[e].key
           /\ vox_indices_ml_shifted[e].val =
                ShiftedBaseLists(key, SelectByMask(base.colli,
                                   form_mask_from_nonzero_pixels_dict(key)))

(* C11: while the per-lenslet collision data is held (lazy mode) a step    *)
(* keeps every entry of the per-lenslet caches as it is, and every entry   *)
(* is the base collision list shifted by the offset of its lenslet.        *)
C11_CacheWrittenOnce ==
  /\ [][/\ ~released' =>
              /\ EntriesKept(vox_indices_by_mla_idx, vox_indices_by_mla_idx')
              /\ EntriesKept(vox_indices_ml_shifted, vox_indices_ml_shifted')
         /\ EntriesKept(vox_indices_by_mla_idx_tensors,
                        vox_indices_by_mla_idx_tensors')]_vars
  /\ []CachesHoldShiftedLists

(* a lazy pass over several lenslets ran after one lenslet had been        *)
(* evaluated on its own, and read that lenslet's list from the cache       *)
C11_Witness ==
  /\ ret.op = "ray_trace_through_volume"
  /\ ~ret.all
  /\ ret.kind = "ok"
  /\ n_micro_lenses > 1
  /\ Len(vox_indices_by_mla_idx) = n_micro_lenses * n_micro_lenses
  /\ vox_indices_by_mla_idx[1].key # <<0, 0>>
  /\ \E r \in 1..NumRays : base.colli[r] # <<>>

(* C12: after n_micro_lenses or n_voxels_per_ml has changed, a lazy pass   *)
(* that returns has used, for every lenslet of the array, the base         *)
(* collision list shifted by the lenslet's offset under the new values.    *)
C12_IndexMapFollowsOpticalInfo ==
  (ret.op = "ray_trace_through_volume" /\ ~ret.all /\ ret.kind = "ok")
    => \A e \in 1..Len(vox_indices_by_mla_idx_tensors) :
          vox_indices_by_mla_idx_tensors[e].key \in LensletKeys(n_micro_lenses)
            => vox_indices_by_mla_idx_tensors[e].val =
                 padded_voxels_of_segs(
                   ShiftedBaseLists(vox_indices_by_mla_idx_tensors[e].key, base.colli))

(* every lenslet's mask is False for every ray *)
AllMasksFalse ==
  \A key \in LensletKeys(n_micro_lenses) :
     CountTrue(form_mask_from_nonzero_pixels_dict(key)) = 0

(* C13: with lenslet-based filtering and a mask that is False for every    *)
(* ray, the filtered collections are empty, a lenslet evaluated while the  *)
(* ray data is held returns, and so does the lazy forward pass; every      *)
(* pixel of the image is 0.                                                *)
C13_AllFalseMaskGivesDarkImage ==
  (use_lenslet_based_filtering /\ AllMasksFalse) =>
    /\ (ret.op = "ray_trace_through_volume" /\ ~ret.all
          /\ ~MLA_volume_geometry_ready)
         => /\ ret.kind = "ok"
            /\ ret.img = Zeros(pixels_per_ml * n_micro_lenses,
                               pixels_per_ml * n_micro_lenses)
    /\ (ret.op = "ret_and_azim_images_torch" /\ ~released)
         => /\ ret.kind = "ok"
            /\ ret.filt.ell = <<>> /\ ret.filt.basis = <<>> /\ ret.filt.colli = <<>>
            /\ ret.pix = <<>>
            /\ ret.img = Zeros(pixels_per_ml, pixels_per_ml)

(* a lazy pass over several lenslets whose masks are all False returned,   *)
(* on rays that do cross voxels                                            *)
C13_Witness ==
  /\ use_lenslet_based_filtering
  /\ AllMasksFalse
  /\ ret.op = "ray_trace_through_volume"
  /\ ~ret.all
  /\ ret.kind = "ok"
  /\ n_micro_lenses > 1
  /\ NoEmptyRay
  /\ Len(vox_indices_ml_shifted) > 1

(* the mask of the lenslet with key mla_index is True for every ray *)
MaskAllTrue(mla_index) ==
  CountTrue(form_mask_from_nonzero_pixels_dict(mla_index)) = Len(ray_valid_indices)

(* what the unfiltered branch gives for the e-th lenslet on this state *)
UnfilteredLenslet(e) ==
  FillImage(AccumulateAfter(PrepUnfiltered(Caches, LoopOffset(e), LoopMlaIndex(e), FALSE)),
            ray_valid_indices, pixels_per_ml)

(* the e-th lenslet's tile of a whole-array image *)
TileOf(img, e) ==
  [a \in 1..pixels_per_ml |->
     [b \in 1..pixels_per_ml |->
        img[LoopJjIdx(e) * pixels_per_ml + a][LoopIiIdx(e) * pixels_per_ml + b]]]

LensletOfKey(key) == key[2] * n_micro_lenses + key[1] + 1

(* the results agree: both raise, or both return the same matrices,        *)
(* pixels and image                                                        *)
SameOutput(x, y) ==
  /\ (x.kind = "ok") = (y.kind = "ok")
  /\ x.kind = "ok" => x.jones = y.jones /\ x.pix = y.pix /\ x.img = y.img

FilteredEqualsUnfiltered ==
  use_lenslet_based_filtering =>
    /\ (ret.op = "ret_and_azim_images_torch" /\ MaskAllTrue(ret.mla)
          /\ ~MLA_volume_geometry_ready)
         => SameOutput(ret, UnfilteredLenslet(LensletOfKey(ret.mla)))
    /\ (ret.op = "ray_trace_through_volume" /\ ~ret.all /\ ret.kind = "ok")
         => \A e \in 1..(n_micro_lenses * n_micro_lenses) :
               MaskAllTrue(LoopMlaIndex(e))
                 => /\ UnfilteredLenslet(e).kind = "ok"
                    /\ TileOf(ret.img, e) = UnfilteredLenslet(e).img

(* C14: with a mask that is True for every ray the filtered evaluation of  *)
(* a lenslet, in the state in which the lazy pass runs, gives what the     *)
(* unfiltered branch gives on the same state                               *)
(* (same matrices, same pixels, same image, in the lazy pass tile by       *)
(* tile), and filter_from_radiometry with an all-True mask leaves the      *)
(* rays, voxel lists, path lengths and bases of the whole-array pass as    *)
(* they were.                                                              *)
C14_AllTrueMaskEqualsUnfiltered ==
  /\ FilteredEqualsUnfiltered
  /\ (ret.op = "filter_from_radiometry" /\ ret.kind # "AssertionError"
        /\ CountTrue(ret.filt.mask) = Len(ret.filt.mask))
       => /\ ray_valid_indices_all = ret.pix
          /\ vox_indices_ml_shifted_all = ret.filt.colli
          /\ ray_vol_colli_lengths = ret.filt.ell
          /\ ray_direction_basis = ret.filt.basis

(* a filtered lazy pass over several lenslets with all-True masks          *)
(* returned an image that is not dark                                      *)
C14_Witness ==
  /\ use_lenslet_based_filtering
  /\ \A key \in LensletKeys(n_micro_lenses) : MaskAllTrue(key)
  /\ ret.op = "ray_trace_through_volume"
  /\ ~ret.all
  /\ ret.kind = "ok"
  /\ n_micro_lenses > 1
  /\ NoEmptyRay
  /\ \E i \in 1..Len(ret.img) : \E j \in 1..Len(ret.img[i]) :
        ret.img[i][j] \notin {Dark, Identity2}

(* the stored geometry: ray pixel indices, voxel index lists, path lengths *)
(* and direction bases, of one lenslet and of the whole array              *)
stored_geometry ==
  << ray_valid_indices, ray_valid_indices_all, ray_vol_colli_indices,
     vox_indices_ml_shifted_all, ray_vol_colli_lengths, ray_direction_basis >>

(* C15: a step of filter_from_radiometry, or an evaluation of a lenslet    *)
(* or of the lazy pass with lenslet-based filtering (_filter_ray_data),    *)
(* changes neither the volume nor the stored geometry.                     *)
C15_MaskLeavesGeometry ==
  [][(\/ ret'.op = "filter_from_radiometry"
      \/ /\ use_lenslet_based_filtering
         /\ ret'.op \in {"ret_and_azim_images_torch", "ray_trace_through_volume"})
       => UNCHANGED << volume, stored_geometry >>]_vars

(* the lenslet (position in the double loop) of the k-th ray of the        *)
(* whole-array list as create_ray_valid_indices_all builds it              *)
LensletOfRay(k) == ((k - 1) \div Len(ray_valid_indices)) + 1

(* C16: the whole-array pixel list holds no pixel twice, every pixel lies  *)
(* inside the (n p) x (n p) image, and while the list holds the rays of    *)
(* every lenslet each ray's pixel lies in the p x p tile of its lenslet.   *)
C16_TilesDoNotOverlap ==
  /\ \A k \in 1..Len(ray_valid_indices_all) :
        /\ ray_valid_indices_all[k][1] \in 0..(n_micro_lenses * pixels_per_ml - 1)
        /\ ray_valid_indices_all[k][2] \in 0..(n_micro_lenses * pixels_per_ml - 1)
        /\ \A q \in 1..Len(ray_valid_indices_all) :
              q # k => ray_valid_indices_all[q] # ray_valid_indices_all[k]
  /\ Len(ray_valid_indices_all)
       = n_micro_lenses * n_micro_lenses * Len(ray_valid_indices)
       => \A k \in 1..Len(ray_valid_indices_all) :
             /\ ray_valid_indices_all[k][1] \div pixels_per_ml
                  = LoopJjIdx(LensletOfRay(k))
             /\ ray_valid_indices_all[k][2] \div pixels_per_ml
                  = LoopIiIdx(LensletOfRay(k))

(* the whole-array pass returned an image over several lenslets *)
C16_Witness ==
  /\ n_micro_lenses > 1
  /\ Len(ray_valid_indices_all)
       = n_micro_lenses * n_micro_lenses * Len(ray_valid_indices)
  /\ ret.op = "ray_trace_through_volume"
  /\ ret.all
  /\ ret.kind = "ok"
  /\ ret.pix = ray_valid_indices_all

(* C17: for every valid ray of the lenslet the matrix of the batched      *)
(* torch accumulation equals the per-ray numpy product for the ray's       *)
(* pixel, on the same volume and collision geometry.                       *)
C17_TorchEqualsNumpy ==
  /\ ret.op = "legacy_calc_cummulative_JM_of_ray_torch"
       => /\ ret.kind = "ok"
          /\ \A r \in 1..Len(ray_valid_indices) :
                /\ r <= Len(ret.jones)
                /\ <<ret.jones[r]>> =
                     legacy_calc_cummulative_JM_of_ray_numpy(
                       ray_valid_indices[r][1], ray_valid_indices[r][2]).jones
  /\ (ret.op = "legacy_calc_cummulative_JM_of_ray_numpy" /\ ret.kind = "ok")
       => /\ legacy_calc_cummulative_JM_of_ray_torch(<<0, 0>>).kind = "ok"
          /\ RayOfPixel(ret.pix[1])
               <= Len(legacy_calc_cummulative_JM_of_ray_torch(<<0, 0>>).jones)
          /\ legacy_calc_cummulative_JM_of_ray_torch(<<0, 0>>).jones[RayOfPixel(ret.pix[1])]
               = ret.jones[1]

(* C18: a call of ray_trace_through_volume whose all_rays_at_once flag     *)
(* differs from MLA_volume_geometry_ready raises ValueError, returns no    *)
(* matrix and no image and changes nothing of the raytracer; so a pass     *)
(* that got past the check was eager on a prepared geometry or lazy on an  *)
(* unprepared one, and never lazy once the per-lenslet data is released.   *)
C18_FlagMismatchRaises ==
  /\ [][(ret'.op = "ray_trace_through_volume"
           /\ ret'.all # MLA_volume_geometry_ready)
          => /\ ret'.kind = "ValueError"
             /\ ret'.jones = <<>> /\ ret'.img = <<>> /\ ret'.pix = <<>>
             /\ UNCHANGED << config_vars, geometry_vars, use_lenslet_based_filtering,
                             lazy_image, vox_indices_by_mla_idx,
                             vox_indices_by_mla_idx_tensors,
                             vox_indices_ml_shifted >>]_vars
  /\ [](/\ released => MLA_volume_geometry_ready
        /\ (ret.op = "ray_trace_through_volume" /\ ret.kind # "ValueError")
             => /\ ret.all = MLA_volume_geometry_ready
                /\ ~ret.all => ~released)

(* a lazy pass was refused after prepare_for_all_rays_at_once had released *)
(* the per-lenslet data of several lenslets                                *)
C18_Witness ==
  /\ ret.op = "ray_trace_through_volume"
  /\ ~ret.all
  /\ ret.kind = "ValueError"
  /\ released
  /\ MLA_volume_geometry_ready
  /\ n_micro_lenses > 1
  /\ NoEmptyRay

(* C19: in the numpy and in the torch per-voxel routine a voxel of         *)
(* birefringence 0 has azimuth 0 whatever the optic axis and the ray       *)
(* basis (and its matrix is the identity); negative birefringence adds     *)
(* pi/2 to the arctan2 azimuth, positive birefringence keeps it; the two   *)
(* routines agree.                                                         *)
C19_ZeroBirefringenceZeroAzimuth ==
  ret.op \in {"voxRayJM_numpy", "voxRayJM_torch"} =>
    /\ ret.Delta_n = 0 => ret.azim = 0 /\ ret.jones = Identity2
    /\ ret.Delta_n < 0 => ret.azim = ret.opticAxis + ret.rayDir + 2
    /\ ret.Delta_n > 0 => ret.azim = ret.opticAxis + ret.rayDir
    /\ ret.azim = azim_torch(ret.Delta_n, ret.opticAxis, ret.rayDir)
    /\ ret.jones = voxRayJM_numpy(ret.Delta_n, ret.opticAxis, ret.rayDir, ret.ell)

(* the numpy routine ran on a voxel of birefringence 0 whose optic axis    *)
(* and ray basis give a non-zero arctan2 angle                             *)
C19_Witness ==
  /\ ret.op = "voxRayJM_numpy"
  /\ ret.Delta_n = 0
  /\ ret.opticAxis = 1
  /\ ret.rayDir = 2
  /\ ret.azim = 0

(***************************************************************************)
(* C21: a volume built from one (Delta_n, optic_axis) pair holds in every  *)
(* voxel the same Delta_n and the same unit optic axis as the volume built *)
(* from the replicated arrays, in the numpy and in the torch backend, and  *)
(* a voxel whose optic axis has zero norm ends with optic axis 0, not NaN. *)
(***************************************************************************)
BuiltVolume(backend, is_3d) ==
  initialize_volume_attributes(
    backend, DeltaNArgument(ret.Delta_n_in, is_3d, volume_shape),
    OpticAxisArgument(ret.optic_axis_in, is_3d, volume_shape),
    is_3d, volume_shape)

IsUnitAxis(a) ==
  /\ ~a.nan
  /\ a.num[1] * a.num[1] + a.num[2] * a.num[2] + a.num[3] * a.num[3]
       = a.den * a.den

IsZeroAxis(a) == ~a.nan /\ a.num = <<0, 0, 0>>

C21_SinglePairEqualsReplicatedArrays ==
  ret.op = "BirefringentVolume" =>
    /\ \A backend \in {"numpy", "torch"}, is_3d \in BOOLEAN :
         BuiltVolume(backend, is_3d) = ret.built
    /\ DOMAIN ret.built.optic_axis = 1..voxel_count(volume_shape)
    /\ DOMAIN ret.built.Delta_n = 1..voxel_count(volume_shape)
    /\ \A q \in DOMAIN ret.built.optic_axis :
         /\ ret.built.Delta_n[q] = nan_to_zero(ret.Delta_n_in)
         /\ IF ret.optic_axis_in = <<0, 0, 0>>
            THEN IsZeroAxis(ret.built.optic_axis[q])
            ELSE /\ IsUnitAxis(ret.built.optic_axis[q])
                 /\ ret.built.optic_axis[q].num = ret.optic_axis_in

C21_Witness ==
  /\ ret.op = "BirefringentVolume"
  /\ ret.backend = "torch"
  /\ ret.is_3d
  /\ ret.optic_axis_in = <<0, 0, 0>>
  /\ \A q \in DOMAIN ret.built.optic_axis : IsZeroAxis(ret.built.optic_axis[q])

(***************************************************************************)
(* C22: at accumulation step m only the rays whose collision list has at   *)
(* least m+1 entries have their running matrix changed; the running matrix *)
(* of a ray whose list is exhausted stays as it was.                       *)
(***************************************************************************)
NoMatrix == <<>>

(* the running matrix of ray r: the default identity before the first      *)
(* step, row r of material_jones afterwards                                *)
RunningMatrix(st, r) ==
  IF st.m = 0 THEN Identity2
  ELSE IF r <= Len(st.material_jones) THEN st.material_jones[r]
  ELSE NoMatrix

StepTaken == InLoop /\ ret'.kind = "running" /\ ret'.m = ret.m + 1

ExhaustedRaysKept(before, after) ==
  \A r \in 1..Len(before.ctx.vox) :
     before.ctx.cnt[r] <= before.m =>
       RunningMatrix(after, r) = RunningMatrix(before, r)

EveryRayHasVoxels(st) == \A r \in 1..Len(st.ctx.cnt) : st.ctx.cnt[r] >= 1

C22_ExhaustedRaysUntouched ==
  [][StepTaken => ExhaustedRaysKept(ret, ret')]_vars

(* the same for the batches in which every ray crosses a voxel *)
ExhaustedRaysUntouchedWhenNoRayIsEmpty ==
  [][(StepTaken /\ EveryRayHasVoxels(ret)) => ExhaustedRaysKept(ret, ret')]_vars

(***************************************************************************)
(* C23: the accumulation takes its steps m = 0, 1, 2, ... in increasing    *)
(* order and terminates after as many steps as the longest collision list  *)
(* is long; when it terminates a ray with k segments has been multiplied   *)
(* exactly k times, so every ray holds its final cumulative matrix.        *)
(***************************************************************************)
Returned == ret.op = "calc_cummulative_JM_of_ray_torch" /\ ret.kind = "ok"

StepsInOrder == (InLoop /\ InLoop') => ret'.m = ret.m + 1

EveryRayHoldsItsProduct ==
  /\ ret.m = MaxLength(base.colli)
  /\ \A r \in 1..Len(base.colli) :
       /\ r <= Len(ret.material_jones)
       /\ ret.material_jones[r] = ExpectedJones(r, ret.off)

C23_AccumulationTerminates ==
  /\ [][StepsInOrder]_vars
  /\ [](Returned => EveryRayHoldsItsProduct)
  /\ (InLoop ~> Returned)

(* the same for the calls in which every ray has a voxel and stays inside  *)
(* the volume                                                              *)
AccumulationTerminatesWhenRaysStayInside ==
  /\ [][StepsInOrder]_vars
  /\ []((Returned /\ NoEmptyRay /\ AllInside(ret.off)) => EveryRayHoldsItsProduct)
  /\ ((InLoop /\ NoEmptyRay /\ AllInside(ret.off)) ~> Returned)

(***************************************************************************)
(* C24: in every output image a pixel to which no ray value is scattered   *)
(* (its ray misses the volume, or a filter removed it) has value 0 in the  *)
(* retardance image and 0 in the azimuth image.                            *)
(***************************************************************************)
OutputImage == ret.kind = "ok" /\ ret.img # <<>>

WholeArrayImage == ret.op = "ray_trace_through_volume"

(* the ray of local pixel (a, b) of the lenslet with index key is missing  *)
(* or masked out                                                           *)
NoRayAt(key, a, b) ==
  \/ \A r \in 1..Len(base.pix) : base.pix[r] # <<a, b>>
  \/ /\ use_lenslet_based_filtering
     /\ ret.op \in {"ray_trace_through_volume", "ret_and_azim_images_torch"}
     /\ ~nonzero_pixels_dict[key][a][b]

(* a pixel of the whole image that the retained rays of the array do not   *)
(* reach                                                                   *)
RemovedFromArray(i, j) ==
  \A k \in 1..Len(ray_valid_indices_all) : ray_valid_indices_all[k] # <<i, j>>

LocalPixels == (0..(pixels_per_ml - 1)) \X (0..(pixels_per_ml - 1))

C24_UnscatteredPixelsAreZero ==
  OutputImage =>
    /\ WholeArrayImage =>
         \A e \in Lenslets, px \in LocalPixels :
            NoRayAt(LoopMlaIndex(e), px[1], px[2]) =>
              TileOf(ret.img, e)[px[1] + 1][px[2] + 1] = Dark
    /\ (WholeArrayImage /\ ret.all) =>
         \A i \in 0..(Len(ret.img) - 1), j \in 0..(Len(ret.img) - 1) :
            RemovedFromArray(i, j) => ret.img[i + 1][j + 1] = Dark
    /\ ~WholeArrayImage =>
         \A px \in LocalPixels :
            NoRayAt(ret.mla, px[1], px[2]) => ret.img[px[1] + 1][px[2] + 1] = Dark

C24_Witness ==
  /\ OutputImage
  /\ WholeArrayImage
  /\ ret.all
  /\ n_micro_lenses > 1
  /\ \E k \in 1..Len(ray_valid_indices_all) :
        ret.img[ray_valid_indices_all[k][1] + 1][ray_valid_indices_all[k][2] + 1] # Dark
  /\ \E e \in Lenslets, r \in 1..Len(base.pix) :
        /\ RemovedFromArray(LoopJjIdx(e) * pixels_per_ml + base.pix[r][1],
                            LoopIiIdx(e) * pixels_per_ml + base.pix[r][2])
        /\ TileOf(ret.img, e)[base.pix[r][1] + 1][base.pix[r][2] + 1] = Dark

(***************************************************************************)
(* C25: after prepare_for_all_rays_at_once has built the whole-array       *)
(* geometry, vox_indices_ml_shifted_all holds the shifted voxel lists of   *)
(* all n^2 lenslets, one block per lenslet in the lenslet order of         *)
(* ray_valid_indices_all and with as many rays as the replicated path      *)
(* lengths and bases, whatever lenslets were cached lazily before.         *)
(***************************************************************************)
PrepareBuilds ==
  /\ ~MLA_volume_geometry_ready
  /\ ret'.op = "prepare_for_all_rays_at_once"
  /\ ret'.kind = "ok"

(* row r of the block of lenslet e is the list of ray r shifted to e *)
BlockOfLenslet(all, e) ==
  \A r \in 1..Len(base.colli) :
     LET row == all[(e - 1) * Len(base.colli) + r]
         shifted == gather_voxels_of_rays_pytorch(LoopOffset(e), base.colli,
                                                  volume_shape)[r]
     IN /\ Len(shifted) <= Len(row)
        /\ row = PadTo(shifted, Len(row))

AllLensletsInOrder(all, pix, ell, basis) ==
  /\ Len(all) = n_micro_lenses * n_micro_lenses * Len(base.colli)
  /\ Len(all) = Len(pix)
  /\ Len(all) = Len(ell)
  /\ Len(all) = Len(basis)
  /\ \A e \in Lenslets : BlockOfLenslet(all, e)

C25_AllLensletsPrepared ==
  [][PrepareBuilds =>
       AllLensletsInOrder(vox_indices_ml_shifted_all', ray_valid_indices_all',
                          ray_vol_colli_lengths', ray_direction_basis')]_vars

(* the same when no lenslet was cached before the call *)
AllLensletsPreparedFromEmptyCache ==
  [][(PrepareBuilds /\ vox_indices_by_mla_idx = <<>>) =>
       AllLensletsInOrder(vox_indices_ml_shifted_all', ray_valid_indices_all',
                          ray_vol_colli_lengths', ray_direction_basis')]_vars

(***************************************************************************)
(* C26: in lazy mode without filtering the voxel indices read by a call    *)
(* calc_cummulative_JM_of_ray_torch(volume, microlens_offset, mla_index)   *)
(* are the base collision indices shifted by that call's microlens_offset, *)
(* also when an earlier call used the same mla_index with another offset.  *)
(***************************************************************************)
DirectCall ==
  /\ ret.op = "calc_cummulative_JM_of_ray"
  /\ HasKey(vox_indices_by_mla_idx_tensors, ret.mla)

(* voxels_of_segs = self.vox_indices_by_mla_idx_tensors[mla_index] *)
VoxelsRead == Get(vox_indices_by_mla_idx_tensors, ret.mla)

C26_VoxelsShiftedByCallOffset ==
  DirectCall =>
    VoxelsRead = padded_voxels_of_segs(
                   gather_voxels_of_rays_pytorch(ret.off, base.colli, volume_shape))

(***************************************************************************)
(* C27: with lenslet-based filtering on, the voxel lists used for a        *)
(* lenslet correspond one-to-one, in order, to the rays selected by the    *)
(* current nonzero-pixel mask of that lenslet, also after                  *)
(* nonzero_pixels_dict was changed between two forward passes.             *)
(***************************************************************************)
FilteredCallReturned ==
  /\ use_lenslet_based_filtering
  /\ ret.kind = "ok"
  /\ \/ ret.op = "ray_trace_through_volume" /\ ~ret.all
     \/ ret.op = "ret_and_azim_images_torch"

LensletsOfCall ==
  IF ret.op = "ray_trace_through_volume" THEN Lenslets ELSE {LensletOfKey(ret.mla)}

(* the shifted lists of the rays that the current mask of lenslet e selects *)
ListsOfSelectedRays(e) ==
  gather_voxels_of_rays_pytorch(
    LoopOffset(e),
    SelectByMask(base.colli, form_mask_from_nonzero_pixels_dict(LoopMlaIndex(e))),
    volume_shape)

C27_ListsFollowCurrentMask ==
  FilteredCallReturned =>
    \A e \in LensletsOfCall :
       /\ HasKey(vox_indices_ml_shifted, LoopOffset(e))
       /\ Get(vox_indices_ml_shifted, LoopOffset(e)) = ListsOfSelectedRays(e)

(* the same in the sessions of Spec, in which the masks stay as they are *)
ListsFollowUnchangedMask ==
  (FilteredCallReturned /\ ~released) =>
    \A e \in LensletsOfCall :
       /\ HasKey(vox_indices_ml_shifted, LoopOffset(e))
       /\ Get(vox_indices_ml_shifted, LoopOffset(e)) = ListsOfSelectedRays(e)

(***************************************************************************)
(* C28: in lazy mode with lenslet-based filtering on, every per-ray value  *)
(* of the accumulator is written to the pixel of the ray it was computed   *)
(* for: the values and the pixel indices of the scatter have the same      *)
(* length and the same ray order, in the retardance/azimuth images and in  *)
(* the intensity images.                                                   *)
(***************************************************************************)
FilteredImageReturned ==
  /\ use_lenslet_based_filtering
  /\ ret.kind = "ok"
  /\ ret.op \in {"ret_and_azim_images_torch", "intensity_images"}

(* the pixels of the rays the values were computed for, in their order *)
PixelsOfComputedRays == SelectByMask(base.pix, ret.filt.mask)

(* with no ray selected there is no per-ray value and nothing is written *)
ValuesMatchPixels ==
  /\ ret.pix = PixelsOfComputedRays
  /\ ret.pix # <<>> => (ret.jkind = "batch" /\ Len(ret.jones) = Len(ret.pix))

C28_ValuesScatteredToOwnPixels == FilteredImageReturned => ValuesMatchPixels

(* the same for the retardance and azimuth images of lenslets in which     *)
(* every selected ray has a voxel                                          *)
RetAzimValuesScatteredToOwnPixels ==
  (/\ FilteredImageReturned
   /\ ret.op = "ret_and_azim_images_torch"
   /\ \A r \in 1..Len(ret.filt.colli) : ret.filt.colli[r] # <<>>) => ValuesMatchPixels

(* an intensity image, every selected ray with a voxel, values and pixels  *)
(* of different number                                                     *)
IntensityValuesBroadcast ==
  /\ FilteredImageReturned
  /\ ret.op = "intensity_images"
  /\ \A r \in 1..Len(ret.filt.colli) : ret.filt.colli[r] # <<>>
  /\ Len(ret.jones) # Len(ret.pix)

(***************************************************************************)
(* C29: a lazy forward pass over an n x n array evaluates exactly n^2      *)
(* lenslets, each (col, row) index pair in 0..n-1 exactly once, for odd    *)
(* and for even n, and the assembled image has (n p) x (n p) pixels with   *)
(* lenslet (col index j, row index i) in rows j p .. j p + p - 1 and       *)
(* columns i p .. i p + p - 1.                                             *)
(***************************************************************************)
LazyPassReturned ==
  /\ ret.kind = "ok"
  /\ ~ret.all
  /\ ret.op \in {"ray_trace_through_volume", "legacy_ray_trace_through_volume"}

SquareImage(img, size) ==
  /\ Len(img) = size
  /\ \A x \in 1..Len(img) : Len(img[x]) = size

(* the lenslets the pass of the current revision evaluates are those of    *)
(* the ranges, each index pair once, with the offset of its position       *)
EachIndexPairOnce ==
  /\ Len(lazy_evaluations) = n_micro_lenses * n_micro_lenses
  /\ \A key \in LensletKeys(n_micro_lenses) :
        Cardinality({e \in 1..Len(lazy_evaluations) :
                       lazy_evaluations[e].mla_index = key}) = 1
  /\ \A e \in 1..Len(lazy_evaluations) :
        /\ lazy_evaluations[e].mla_index = LoopMlaIndex(e)
        /\ lazy_evaluations[e].current_offset = LoopOffset(e)

C29_EveryLensletOnceInItsTile ==
  LazyPassReturned =>
    /\ SquareImage(ret.img, n_micro_lenses * pixels_per_ml)
    /\ ret.op = "ray_trace_through_volume" =>
         /\ EachIndexPairOnce
         /\ \A e \in Lenslets : TileOf(ret.img, e) = UnfilteredLenslet(e).img
    /\ ret.op = "legacy_ray_trace_through_volume" =>
         /\ Len(ret.evaluated) = n_micro_lenses * n_micro_lenses
         /\ \A e \in Lenslets :
               TileOf(ret.img, e) =
                 legacy_image_of(LoopIiIdx(e) - n_ml_half, LoopJjIdx(e) - n_ml_half).img

(* the same for the current revision alone *)
EveryLensletOnceInItsTileCurrent ==
  (LazyPassReturned /\ ret.op = "ray_trace_through_volume") =>
    /\ SquareImage(ret.img, n_micro_lenses * pixels_per_ml)
    /\ EachIndexPairOnce
    /\ \A e \in Lenslets : TileOf(ret.img, e) = UnfilteredLenslet(e).img

(* and for the revision without supersampling when n is odd *)
EveryLensletOnceInItsTileLegacyOdd ==
  (/\ LazyPassReturned
   /\ ret.op = "legacy_ray_trace_through_volume"
   /\ n_micro_lenses % 2 = 1) =>
    /\ SquareImage(ret.img, n_micro_lenses * pixels_per_ml)
    /\ Len(ret.evaluated) = n_micro_lenses * n_micro_lenses
    /\ \A e \in Lenslets :
          TileOf(ret.img, e) =
            legacy_image_of(LoopIiIdx(e) - n_ml_half, LoopJjIdx(e) - n_ml_half).img

(***************************************************************************)
(* C30: filter_from_radiometry only removes rays and is idempotent: the    *)
(* rays retained after a call are among those retained before it, a second *)
(* call with the same radiometry image leaves the four whole-array arrays  *)
(* as the first left them, and a call before the whole-array geometry is   *)
(* ready fails an assertion and changes nothing.                           *)
(***************************************************************************)
whole_array_arrays ==
  << ray_valid_indices_all, vox_indices_ml_shifted_all, ray_vol_colli_lengths,
     ray_direction_basis >>

FilterCalled == ret'.op = "filter_from_radiometry"

(* the call that made this state and the call of the step read the same    *)
(* radiometry image at the pixels of their rays                            *)
SameRadiometryAgain ==
  /\ ret.op = "filter_from_radiometry"
  /\ FilterCalled
  /\ \E pattern \in RadiometryPatterns :
        /\ ret.filt.mask = get_bool_mask_for_ray_indices(ret.pix, pattern)
        /\ ret'.filt.mask = get_bool_mask_for_ray_indices(ret'.pix, pattern)

OnlyRemovesRays ==
  /\ Len(ray_valid_indices_all') <= Len(ray_valid_indices_all)
  /\ \A k \in 1..Len(ray_valid_indices_all') :
        \E q \in 1..Len(ray_valid_indices_all) :
           ray_valid_indices_all[q] = ray_valid_indices_all'[k]

C30_FilterRemovesAndIsIdempotent ==
  [][/\ FilterCalled => OnlyRemovesRays
     /\ SameRadiometryAgain => UNCHANGED whole_array_arrays
     /\ (FilterCalled /\ ~MLA_volume_geometry_ready) =>
          /\ ret'.kind = "AssertionError"
          /\ UNCHANGED whole_array_arrays]_vars

(* a second call with the image that removed rays in the first *)
C30_Witness ==
  /\ ret.op = "filter_from_radiometry"
  /\ ret.kind = "ok"
  /\ ret.pix # <<>>
  /\ Len(ret.pix) < n_micro_lenses * n_micro_lenses * Len(base.pix)
  /\ CountTrue(ret.filt.mask) = Len(ret.pix)
  /\ ret.filt.mask = get_bool_mask_for_ray_indices(ret.pix, "checker")

====
